---- MODULE Spec2Model ----
(***************************************************************************)
(* AxCrypt security core: the file-envelope engine (core/crypto.py) and    *)
(* the HMAC-chained activity log (core/history.py).                        *)
(*                                                                         *)
(* Files are byte sequences; a byte is a number in 0..ByteMod-1.  The      *)
(* sizes of the format (block, chunk, salt, two-digit length field) are    *)
(* scaled down so that every content up to MaxLen can be enumerated; the   *)
(* layout, the order of the steps and the arithmetic are those of the      *)
(* source.  AES is a keyed, invertible block transformation chained in CBC *)
(* mode; scrypt is an injective map of (password, salt) to a key; HMAC-    *)
(* SHA256 is an injective map of (key, payload) to a digest.               *)
(***************************************************************************)
EXTENDS Integers, Sequences, FiniteSets, TLC

VARIABLES
    fs,            \* the file system: path -> bytes, for the paths that exist
    pc,            \* position of the running envelope call ("idle" between calls)
    loc,           \* the running call's arguments and local variables
    progress,      \* values handed to progress_cb by the current / last call
    result,        \* what the last finished call returned
    made,          \* path -> how the envelope now stored there was produced
    entries,       \* HistoryManager.entries (oldest first)
    historyDb,     \* the entries stored in HISTORY_DB, <<>> while the file is absent
    chainKeyFile,  \* content of chain.key, NoKey while the file is absent
    lastOp,        \* the last operation on the log and what it acted on
    clean,         \* no edit from outside since the log was last empty
    after,         \* adds made since the last edit from outside
    now,           \* time.time(), in seconds
    users,         \* UserManager.users: username -> record
    usersDb,       \* the user map last stored in USERS_DB
    vault,         \* the files USERS_DB and db.salt: present, which salt, what body
    login_attempts, \* UserManager.login_attempts: username -> failures counted
    lockout_until, \* UserManager.lockout_until: username -> expiry time
    authResult,    \* the last register / authenticate / reset_password call and its result
    wrong,         \* username -> wrong-password calls in a row, and the time of the last
    _pending_otps, \* UserManager._pending_otps: mobile -> record
    otpResult,     \* the last generate_otp / verify_otp / clear_otp call and its result
    issued,        \* mobile -> how the pending code was generated and used so far
    ui,            \* the handler of the login screen or settings panel that is under way
    session,       \* SessionManager.username, "" while nobody is logged in
    redeemed,      \* user names with a verified code that no reset or signup has used yet
    token,         \* the time-locked token at hand, <<>> when there is none
    tokenMade,     \* what generate_time_locked_password was asked for and returned
    tokenResult,   \* what the last validate_time_locked_password returned, and for what
    target,        \* the file secure_delete is called on: what is read from it, what is on disk
    wipe,          \* where secure_delete stands, its locals and what it returned
    wops,          \* the writes, flushes, syncs and removals secure_delete has made
    damage,        \* what was done to the envelope file after it was written
    stegResult,    \* what the last read_steg_metadata returned, and on what
    secret,        \* the files chain.key and db.salt: present or not, and their content
    calls,         \* thread -> where its _chain_key or _get_db_salt call stands
    drawn,         \* file -> secrets generated for it, and the values its calls returned
    adds,          \* thread -> where its history.add call stands, and its locals
    added,         \* history.add calls that have returned
    panel,         \* EncryptPanel: _is_processing, the selected file, the password fields, the button
    workers,       \* the encryption workers started so far: what on, how, still running or not
    sess,          \* SessionManager: username, locked, _last_activity, _lock_requested
    screen,        \* what the window shows: the login screen, the main screen or the lock screen
    sessResult,    \* the last SessionManager call, what it returned, and what is owed since
    dpanel,        \* DecryptPanel: _is_processing, the selected file, the button, _poll_job, ui_queue
    dworkers,      \* the decryption workers started so far and where each stands
    disk,          \* what is stored at the envelope path and at the output path
    reencrypt      \* the _otd_reencrypt calls app.after has pending, and whether one is owed

vars == <<fs, pc, loc, progress, result, made,
          entries, historyDb, chainKeyFile, lastOp, clean, after,
          now, users, usersDb, login_attempts, lockout_until, authResult, wrong,
          _pending_otps, otpResult, issued, ui, session, redeemed,
          token, tokenMade, tokenResult, target, wipe, wops, damage, stegResult, vault,
          secret, calls, drawn, adds, added,
          panel, workers,
          sess, screen, sessResult,
          dpanel, dworkers, disk, reencrypt>>

envVars == <<fs, pc, loc, progress, result, made>>
logVars == <<entries, historyDb, chainKeyFile, lastOp, clean, after>>
loginVars == <<users, usersDb, vault, login_attempts, lockout_until, authResult, wrong>>
otpVars == <<_pending_otps, otpResult, issued>>
userVars == <<now, loginVars, otpVars>>
uiVars == <<ui, session, redeemed>>

tokenVars == <<token, tokenMade, tokenResult>>
wipeVars == <<target, wipe, wops>>
probeVars == <<damage, stegResult>>
otdVars == <<dpanel, dworkers, disk, reencrypt>>
sessionVars == <<sess, screen, sessResult>>
panelVars == <<panel, workers>>
workerVars == <<adds, added>>
secretVars == <<secret, calls, drawn>>

\* what the calls of one component leave alone
OutsideEnvelope == UNCHANGED <<logVars, userVars, uiVars, tokenVars, wipeVars, probeVars, secretVars, workerVars, panelVars, sessionVars, otdVars>>
OutsideLog == UNCHANGED <<envVars, userVars, uiVars, tokenVars, wipeVars, probeVars, secretVars, workerVars, panelVars, sessionVars, otdVars>>
OutsideUsers == UNCHANGED <<envVars, logVars, tokenVars, wipeVars, probeVars, secretVars, workerVars, panelVars, sessionVars, otdVars>>

----------------------------------------------------------------------------
(* Bounds and scaled sizes *)

ByteMod   == 6     \* bytes are 0..ByteMod-1 (256 in the source)
BlockSize == 2     \* cipher / padding block in bytes (16 in the source)
ChunkSize == 3     \* bytes read per streaming step (8192 in the source)
SALT_SIZE == 1     \* salt bytes (16 in the source)
MaxLen    == 4     \* longest source content enumerated
NPasswords == 2    \* passwords are 1..NPasswords

IV_SIZE == BlockSize

Byte == 0 .. (ByteMod - 1)

Min(a, b) == IF a <= b THEN a ELSE b

\* f.read(n) / s[:n]: at most n bytes from the front
Take(s, n) == SubSeq(s, 1, Min(n, Len(s)))

\* what is left after reading n bytes / s[n:]
Drop(s, n) == SubSeq(s, Min(n, Len(s)) + 1, Len(s))

RECURSIVE SumSeq(_)
SumSeq(s) == IF s = <<>> THEN 0 ELSE Head(s) + SumSeq(Tail(s))

RECURSIVE SeqsUpTo(_, _)
SeqsUpTo(S, n) ==
    IF n = 0 THEN {<<>>}
    ELSE LET shorter == SeqsUpTo(S, n - 1)
         IN  shorter \cup {Append(s, b) : s \in {t \in shorter : Len(t) = n - 1}, b \in S}

\* source contents: every byte string over two byte values up to MaxLen
Contents == SeqsUpTo({0, 1}, MaxLen)

Passwords == 1 .. NPasswords

\* secrets.token_bytes(n): two of the possible draws
TokenBytes(n) == {[i \in 1..n |-> 0], [i \in 1..n |-> 1]}

\* the salt drawn by secrets.token_bytes(SALT_SIZE): one of the possible draws
SaltDraws == {[i \in 1..SALT_SIZE |-> 1]}

\* time.time() at the moment of the call, as one byte
Times == {1}

\* the clock is read only when owner_info is given
ClockReads(owner) == IF owner # <<>> THEN Times ELSE {0}

----------------------------------------------------------------------------
(* Paths: a file name followed by its suffixes, "f.enc" is <<"f", "enc">> *)

SrcPath  == <<"f">>
MissingPath == <<"g">>
EncPath  == <<"f", "enc">>
DecPath  == <<"f", "dec">>
TempPath == <<".axcrypt_tmp_", "enc">>
NoPath   == <<>>

Exists(files, p) == p \in DOMAIN files

WriteFile(files, p, data) ==
    [q \in (DOMAIN files) \cup {p} |-> IF q = p THEN data ELSE files[q]]

RemoveFile(files, p) == [q \in (DOMAIN files) \ {p} |-> files[q]]

\* os.replace(a, b): b now holds a's bytes and a is gone, in one step
ReplaceFile(files, a, b) == RemoveFile(WriteFile(files, b, files[a]), a)

EndsWithEnc(p) == Len(p) > 1 /\ p[Len(p)] = "enc"

\* decrypt_file's default output path
DefaultOutput(enc_path) ==
    IF EndsWithEnc(enc_path) THEN SubSeq(enc_path, 1, Len(enc_path) - 1)
    ELSE Append(enc_path, "dec")

----------------------------------------------------------------------------
(* Key derivation, CBC and PKCS#7 *)

derive_key(password, salt) == (password + SumSeq(salt)) % ByteMod

\* one block under key k, chained to the previous cipher block
EncBlock(k, prev, blk) == [i \in 1..BlockSize |-> (blk[i] + prev[i] + k) % ByteMod]

DecBlock(k, prev, blk) == [i \in 1..BlockSize |-> (blk[i] - prev[i] - k) % ByteMod]

\* encryptor.update on whole blocks; chain is the IV or the last cipher block
RECURSIVE EncBlocks(_, _, _)
EncBlocks(k, chain, data) ==
    IF Len(data) < BlockSize THEN <<>>
    ELSE LET c == EncBlock(k, chain, Take(data, BlockSize))
         IN  c \o EncBlocks(k, c, Drop(data, BlockSize))

RECURSIVE DecBlocks(_, _, _)
DecBlocks(k, chain, data) ==
    IF Len(data) < BlockSize THEN <<>>
    ELSE LET c == Take(data, BlockSize)
         IN  DecBlock(k, chain, c) \o DecBlocks(k, c, Drop(data, BlockSize))

\* the chaining value after emitting cipher bytes ct
NextChain(chain, ct) ==
    IF ct = <<>> THEN chain ELSE SubSeq(ct, Len(ct) - BlockSize + 1, Len(ct))

\* padder.update: the whole blocks of the buffered bytes are released
WholeBlocks(buf) == Take(buf, (Len(buf) \div BlockSize) * BlockSize)

Remainder(buf) == Drop(buf, (Len(buf) \div BlockSize) * BlockSize)

\* padder.finalize: n = BlockSize - len(buffer) bytes of value n
PadFinal(buf) == buf \o [i \in 1..(BlockSize - Len(buf)) |-> BlockSize - Len(buf)]

\* unpadder: the last byte n must be in 1..BlockSize and the last n bytes equal n
PadOk(data) ==
    /\ Len(data) > 0
    /\ Len(data) % BlockSize = 0
    /\ LET n == data[Len(data)]
       IN  /\ n \in 1..BlockSize
           /\ \A i \in (Len(data) - n + 1)..Len(data) : data[i] = n

Unpad(data) == SubSeq(data, 1, Len(data) - data[Len(data)])

----------------------------------------------------------------------------
(* Header and hidden owner metadata *)

STEG_MAGIC == <<4, 5>>

JSON_QUOTE  == 2
JSON_ESCAPE == 3

\* struct.pack(">H", n) raises unless n fits the two-byte length field
FitsLength(n) == n < ByteMod * ByteMod

Pack16(n) == <<n \div ByteMod, n % ByteMod>>

Unpack16(two) == two[1] * ByteMod + two[2]

\* json.dumps of a string: quoted, with quote and escape characters escaped
RECURSIVE JsonEscape(_)
JsonEscape(s) ==
    IF s = <<>> THEN <<>>
    ELSE (IF Head(s) \in {JSON_QUOTE, JSON_ESCAPE}
          THEN <<JSON_ESCAPE, Head(s)>> ELSE <<Head(s)>>) \o JsonEscape(Tail(s))

\* json.dumps({"owner": owner, "ts": ts}).encode("utf-8")
JsonDumps(owner, ts) == <<JSON_QUOTE>> \o JsonEscape(owner) \o <<JSON_QUOTE, ts>>

\* the string body up to its closing quote: [ok, str, rest]
RECURSIVE JsonString(_)
JsonString(s) ==
    IF s = <<>> THEN [ok |-> FALSE, str |-> <<>>, rest |-> <<>>]
    ELSE IF Head(s) = JSON_QUOTE THEN [ok |-> TRUE, str |-> <<>>, rest |-> Tail(s)]
    ELSE IF Head(s) = JSON_ESCAPE
         THEN IF Len(s) < 2 THEN [ok |-> FALSE, str |-> <<>>, rest |-> <<>>]
              ELSE LET r == JsonString(Drop(s, 2))
                   IN  [ok |-> r.ok, str |-> <<s[2]>> \o r.str, rest |-> r.rest]
    ELSE LET r == JsonString(Tail(s))
         IN  [ok |-> r.ok, str |-> <<Head(s)>> \o r.str, rest |-> r.rest]

NoMeta == [found |-> FALSE, owner |-> <<>>, ts |-> 0]

\* json.loads: the metadata, or NoMeta where json.loads raises
JsonLoads(raw) ==
    IF raw = <<>> \/ Head(raw) # JSON_QUOTE THEN NoMeta
    ELSE LET r == JsonString(Tail(raw))
         IN  IF r.ok /\ Len(r.rest) = 1
             THEN [found |-> TRUE, owner |-> r.str, ts |-> r.rest[1]]
             ELSE NoMeta

\* steg_payload of encrypt_file / encrypt_file_replace
StegPayload(owner, ts) ==
    IF owner # <<>> THEN STEG_MAGIC \o JsonDumps(owner, ts) ELSE <<>>

BuildHeaderNoFlag(otd, steg_meta) == <<0>> \o Pack16(Len(steg_meta)) \o steg_meta

_build_header(otd, steg_meta) ==
    (IF otd THEN <<1>> ELSE <<0>>) \o Pack16(Len(steg_meta)) \o steg_meta

\* owner strings tried: none, plain, needing escapes, too long for the length field
LongOwner == [i \in 1..(ByteMod * ByteMod) |-> 0]

Owners == {<<>>, <<0>>, <<JSON_QUOTE, JSON_ESCAPE>>, LongOwner}

StegOfAnyPayload(file) ==
    LET peek == Take(Drop(file, SALT_SIZE + IV_SIZE), 3)
        rest == Drop(file, SALT_SIZE + IV_SIZE + 3)
    IN  IF Len(peek) < 3 THEN NoMeta
        ELSE JsonLoads(Drop(Take(rest, Unpack16(SubSeq(peek, 2, 3))), 2))

\* read_steg_metadata on the bytes of a file
StegOf(file) ==
    LET peek == Take(Drop(file, SALT_SIZE + IV_SIZE), 3)
        rest == Drop(file, SALT_SIZE + IV_SIZE + 3)
    IN  IF Len(peek) < 3 THEN NoMeta
        ELSE LET raw == Take(rest, Unpack16(SubSeq(peek, 2, 3)))
             IN  IF Take(raw, 2) = STEG_MAGIC THEN JsonLoads(Drop(raw, 2)) ELSE NoMeta

read_steg_metadata(files, enc_path) ==
    IF Exists(files, enc_path) THEN StegOf(files[enc_path]) ELSE NoMeta

----------------------------------------------------------------------------
(* Progress values are fractions <<numerator, denominator>> *)

Leq(a, b) == a[1] * b[2] <= b[1] * a[2]

Cap  == <<95, 100>>
Full == <<1, 1>>
Zero == <<0, 1>>

StreamProgressNoCap(processed, file_size) == <<processed, file_size>>

\* min(processed / file_size, 0.95)
StreamProgress(processed, file_size) ==
    IF Leq(<<processed, file_size>>, Cap) THEN <<processed, file_size>> ELSE Cap

----------------------------------------------------------------------------
(* Results and the record of produced envelopes *)

NoEnv == [valid |-> FALSE, password |-> 0, otd |-> FALSE, owner |-> <<>>,
          ts |-> 0, content |-> <<>>]

EnvOf(l) == [valid |-> TRUE, password |-> l.password, otd |-> l.otd,
             owner |-> l.owner, ts |-> l.ts, content |-> l.orig]

NoResult == [op |-> "none", ok |-> FALSE, path |-> NoPath, err |-> "", was_otd |-> FALSE,
             src |-> NoPath, password |-> 0, from |-> NoEnv]

NoLoc == [op |-> "none", src |-> NoPath, out |-> NoPath, password |-> 0, otd |-> FALSE,
          owner |-> <<>>, ts |-> 0, salt |-> <<>>, iv |-> <<>>, key |-> 0,
          header |-> <<>>, file_size |-> 0, processed |-> 0, buf |-> <<>>,
          chain |-> <<>>, plaintext |-> <<>>, ct |-> <<>>, orig |-> <<>>]

\* (True, path, None)
Success(l, path) == [op |-> l.op, ok |-> TRUE, path |-> path, err |-> "", was_otd |-> FALSE,
                     src |-> l.src, password |-> l.password, from |-> NoEnv]

\* (False, None, message)
Failure(op, src, password, msg) ==
    [op |-> op, ok |-> FALSE, path |-> NoPath, err |-> msg, was_otd |-> FALSE,
     src |-> src, password |-> password, from |-> NoEnv]

\* a behaviour is one file, one encryption of it, then decryptions
FirstCall == result.op = "none"

Forget(m, p) == [q \in (DOMAIN m) \ {p} |-> m[q]]

Remember(m, p, e) == [q \in (DOMAIN m) \cup {p} |-> IF q = p THEN e ELSE m[q]]

\* the locals both encrypt functions set up before the cipher loop
EncryptLocals(op, src, out, password, otd, owner, ts, salt, iv, content) ==
    [op |-> op, src |-> src, out |-> out, password |-> password, otd |-> otd,
     owner |-> owner, ts |-> ts, salt |-> salt, iv |-> iv,
     key |-> derive_key(password, salt),
     header |-> _build_header(otd, StegPayload(owner, ts)),
     file_size |-> IF Len(content) = 0 THEN 1 ELSE Len(content),
     processed |-> 0, buf |-> <<>>, chain |-> iv,
     plaintext |-> IF op = "encrypt_file_replace" THEN content ELSE <<>>,
     ct |-> <<>>, orig |-> content]

ChunkChainRestart(l) == l.iv

\* the encryptor keeps its chaining value from one update to the next
ChunkChain(l) == l.chain

\* encryptor.update(padder.update(chunk)): the cipher bytes one chunk releases
Emitted(l, chunk) == EncBlocks(l.key, ChunkChain(l), WholeBlocks(l.buf \o chunk))

\* padder and encryptor state after the chunk
AfterChunk(l, chunk) ==
    [l EXCEPT !.processed = l.processed + Len(chunk),
              !.buf = Remainder(l.buf \o chunk),
              !.chain = NextChain(ChunkChain(l), Emitted(l, chunk))]

\* encryptor.update(padder.finalize()) + encryptor.finalize()
FinalBlock(l) == EncBlocks(l.key, ChunkChain(l), PadFinal(l.buf))

----------------------------------------------------------------------------
(* encrypt_file: src -> src.enc, streamed *)

EncryptFile(src, password, otd, owner) ==
    /\ pc = "idle" /\ FirstCall
    /\ progress' = <<>>
    /\ IF ~Exists(fs, src)
       THEN /\ result' = Failure("encrypt_file", src, password, "Source file not found.")
            /\ UNCHANGED <<fs, pc, loc, made>>
       ELSE \E salt \in SaltDraws, iv \in TokenBytes(IV_SIZE),
               ts \in ClockReads(owner) :
              LET out == Append(src, "enc")
                  l   == EncryptLocals("encrypt_file", src, out, password, otd, owner,
                                       ts, salt, iv, fs[src])
              IN  IF ~FitsLength(Len(StegPayload(owner, ts)))
                  THEN /\ result' = Failure("encrypt_file", src, password, "struct.error")
                       /\ UNCHANGED <<fs, pc, loc, made>>
                  ELSE /\ fs' = WriteFile(fs, out, salt \o iv \o l.header)
                       /\ made' = Forget(made, out)
                       /\ loc' = l
                       /\ pc' = "ef_loop"
                       /\ UNCHANGED result
    /\ OutsideEnvelope

\* chunk = fin.read(8192), non-empty
EfChunk ==
    /\ pc = "ef_loop"
    /\ loc.processed < Len(fs[loc.src])
    /\ LET chunk == Take(Drop(fs[loc.src], loc.processed), ChunkSize)
           l     == AfterChunk(loc, chunk)
       IN  /\ loc' = l
           /\ fs' = WriteFile(fs, loc.out, fs[loc.out] \o Emitted(loc, chunk))
           /\ progress' = Append(progress, StreamProgress(l.processed, l.file_size))
    /\ UNCHANGED <<pc, result, made>>
    /\ OutsideEnvelope

\* the read returns nothing: the final block is written and both files are closed
EfFinalize ==
    /\ pc = "ef_loop"
    /\ loc.processed >= Len(fs[loc.src])
    /\ fs' = WriteFile(fs, loc.out, fs[loc.out] \o FinalBlock(loc))
    /\ pc' = "ef_done"
    /\ UNCHANGED <<loc, progress, result, made>>
    /\ OutsideEnvelope

\* progress_cb(1.0); return True, out_path, None
EfReturn ==
    /\ pc = "ef_done"
    /\ progress' = Append(progress, Full)
    /\ result' = Success(loc, loc.out)
    /\ made' = Remember(made, loc.out, EnvOf(loc))
    /\ pc' = "idle"
    /\ loc' = NoLoc
    /\ UNCHANGED <<fs>>
    /\ OutsideEnvelope

\* a read, a write or the callback raises: the except branch returns the failure
EfRaise ==
    /\ pc \in {"ef_loop", "ef_done"}
    /\ progress' = IF pc = "ef_done" THEN Append(progress, Full) ELSE progress
    /\ result' = Failure("encrypt_file", loc.src, loc.password, "exception")
    /\ pc' = "idle"
    /\ loc' = NoLoc
    /\ UNCHANGED <<fs, made>>
    /\ OutsideEnvelope

----------------------------------------------------------------------------
(* encrypt_file_replace: encrypt in memory, write a temporary file, rename *)

EncryptFileReplace(src, password, otd, owner) ==
    /\ pc = "idle" /\ FirstCall
    /\ progress' = <<>>
    /\ IF ~Exists(fs, src)
       THEN /\ result' = Failure("encrypt_file_replace", src, password,
                                 "Source file not found.")
            /\ UNCHANGED <<pc, loc>>
       ELSE \E salt \in SaltDraws, iv \in TokenBytes(IV_SIZE),
               ts \in ClockReads(owner) :
              IF ~FitsLength(Len(StegPayload(owner, ts)))
              THEN /\ result' = Failure("encrypt_file_replace", src, password,
                                        "struct.error")
                   /\ UNCHANGED <<pc, loc>>
              ELSE /\ loc' = EncryptLocals("encrypt_file_replace", src, src, password,
                                           otd, owner, ts, salt, iv, fs[src])
                   /\ pc' = "efr_loop"
                   /\ UNCHANGED result
    /\ UNCHANGED <<fs, made>>
    /\ OutsideEnvelope

\* one iteration of  for i in range(0, len(plaintext), chunk_size)
EfrChunk ==
    /\ pc = "efr_loop"
    /\ loc.processed < Len(loc.plaintext)
    /\ LET chunk == Take(Drop(loc.plaintext, loc.processed), ChunkSize)
           l     == AfterChunk(loc, chunk)
       IN  /\ loc' = [l EXCEPT !.ct = loc.ct \o Emitted(loc, chunk)]
           /\ progress' = Append(progress, StreamProgress(l.processed, l.file_size))
    /\ UNCHANGED <<fs, pc, result, made>>
    /\ OutsideEnvelope

\* the path the envelope bytes are written to
EfrWritePathInPlace(l) == l.src

EfrWritePath(l) == TempPath

\* the loop is over: final block, join, tempfile.mkstemp in the same directory
EfrMkstemp ==
    /\ pc = "efr_loop"
    /\ loc.processed >= Len(loc.plaintext)
    /\ loc' = [loc EXCEPT !.ct = loc.ct \o FinalBlock(loc)]
    /\ fs' = WriteFile(fs, TempPath, <<>>)
    /\ pc' = "efr_header"
    /\ UNCHANGED <<progress, result, made>>
    /\ OutsideEnvelope

\* fout.write(salt + iv + header)
EfrWriteHeader ==
    /\ pc = "efr_header"
    /\ fs' = WriteFile(fs, EfrWritePath(loc), loc.salt \o loc.iv \o loc.header)
    /\ made' = Forget(made, EfrWritePath(loc))
    /\ pc' = "efr_cipher"
    /\ UNCHANGED <<loc, progress, result>>
    /\ OutsideEnvelope

\* fout.write(ciphertext)
EfrWriteCipher ==
    /\ pc = "efr_cipher"
    /\ fs' = WriteFile(fs, EfrWritePath(loc), fs[EfrWritePath(loc)] \o loc.ct)
    /\ pc' = "efr_sync"
    /\ UNCHANGED <<loc, progress, result, made>>
    /\ OutsideEnvelope

\* fout.flush(); os.fsync(fout.fileno()); the with block closes the file
EfrSync ==
    /\ pc = "efr_sync"
    /\ pc' = "efr_replace"
    /\ UNCHANGED <<fs, loc, progress, result, made>>
    /\ OutsideEnvelope

\* os.replace(temp_path, src_path)
EfrReplace ==
    /\ pc = "efr_replace"
    /\ fs' = ReplaceFile(fs, TempPath, loc.src)
    /\ made' = Forget(made, loc.src)
    /\ pc' = "efr_done"
    /\ UNCHANGED <<loc, progress, result>>
    /\ OutsideEnvelope

\* progress_cb(1.0); return True, src_path, None
EfrReturn ==
    /\ pc = "efr_done"
    /\ progress' = Append(progress, Full)
    /\ result' = Success(loc, loc.src)
    /\ made' = Remember(made, loc.src, EnvOf(loc))
    /\ pc' = "idle"
    /\ loc' = NoLoc
    /\ UNCHANGED <<fs>>
    /\ OutsideEnvelope

\* an exception at the current step.  In the loop no temporary file exists yet;
\* later the inner handler removes the temporary file if it is there and
\* re-raises, and the outer handler returns (False, None, str(exc)).
EfrRaise ==
    /\ pc \in {"efr_loop", "efr_header", "efr_cipher", "efr_sync", "efr_replace",
               "efr_done"}
    /\ fs' = IF pc # "efr_loop" /\ Exists(fs, TempPath) THEN RemoveFile(fs, TempPath)
             ELSE fs
    /\ progress' = IF pc = "efr_done" THEN Append(progress, Full) ELSE progress
    /\ result' = Failure("encrypt_file_replace", loc.src, loc.password, "exception")
    /\ pc' = "idle"
    /\ loc' = NoLoc
    /\ UNCHANGED <<made>>
    /\ OutsideEnvelope

----------------------------------------------------------------------------
(* decrypt_file *)

GenericError == "Decryption failed - wrong password or corrupted file."

DecryptErrorOfCause(exc) == exc

\* except Exception as exc: the message returned, whatever was raised
DecryptError(exc) == GenericError

\* header parse, key derivation, CBC decryption and unpadding of the bytes of
\* an existing file: raised is TRUE where any of these steps raises, exc what
Decrypted(file, password) ==
    LET salt == Take(file, SALT_SIZE)
        iv   == Take(Drop(file, SALT_SIZE), IV_SIZE)
        peek == Take(Drop(file, SALT_SIZE + IV_SIZE), 3)
        rest == Drop(file, SALT_SIZE + IV_SIZE + 3)
        bad(exc) == [raised |-> TRUE, plaintext |-> <<>>, otd_flag |-> FALSE, exc |-> exc]
    IN  IF Len(peek) < 3 THEN bad("struct.error: unpack requires a buffer of 2 bytes")
        ELSE LET slen       == Unpack16(SubSeq(peek, 2, 3))
                 ciphertext == Drop(rest, slen)
                 key        == derive_key(password, salt)
                 padded     == DecBlocks(key, iv, ciphertext)
             IN  IF Len(iv) # BlockSize THEN bad("ValueError: Invalid IV size")
                 ELSE IF Len(ciphertext) % BlockSize # 0
                 THEN bad("ValueError: not a multiple of the block length")
                 ELSE IF ~PadOk(padded) THEN bad("ValueError: Invalid padding bytes.")
                 ELSE [raised |-> FALSE, plaintext |-> Unpad(padded),
                       otd_flag |-> (peek[1] = 1), exc |-> ""]

DecryptFile(enc_path, password, output_path) ==
    /\ pc = "idle"
    /\ progress' = <<>>
    /\ LET from == IF enc_path \in DOMAIN made THEN made[enc_path] ELSE NoEnv
           fail(msg) == [op |-> "decrypt_file", ok |-> FALSE, path |-> NoPath,
                         err |-> msg, was_otd |-> FALSE, src |-> enc_path,
                         password |-> password, from |-> from]
       IN  IF ~Exists(fs, enc_path)
           THEN /\ result' = fail("Encrypted file not found.")
                /\ UNCHANGED <<fs, made>>
           ELSE LET d   == Decrypted(fs[enc_path], password)
                    out == IF output_path = NoPath THEN DefaultOutput(enc_path)
                           ELSE output_path
                IN  IF d.raised
                    THEN /\ result' = fail(DecryptError(d.exc))
                         /\ UNCHANGED <<fs, made>>
                    ELSE /\ fs' = WriteFile(fs, out, d.plaintext)
                         /\ made' = Forget(made, out)
                         /\ result' = [op |-> "decrypt_file", ok |-> TRUE, path |-> out,
                                       err |-> "", was_otd |-> d.otd_flag,
                                       src |-> enc_path, password |-> password,
                                       from |-> from]
    /\ UNCHANGED <<pc, loc>>
    /\ OutsideEnvelope

----------------------------------------------------------------------------
(* The envelope engine: one file f with any content, then calls on it *)

InitLog ==
    /\ entries = <<>>
    /\ historyDb = <<>>
    /\ chainKeyFile = <<>>
    /\ lastOp = [op |-> "none", index |-> -1, data |-> <<>>, dropped |-> 0]
    /\ clean = TRUE
    /\ after = 0

\* the components that are not in use
NoToken == [password |-> 0, duration |-> 0, expiry |-> 0, token |-> <<>>]

NoWipe == [pc |-> "idle", passes |-> 0, size |-> 0, i |-> 0, buf |-> <<>>,
           raised |-> FALSE, ret |-> "none"]

NoFile == [exists |-> FALSE, data |-> <<>>, disk |-> <<>>]

NoDamage == [kind |-> "none", at |-> 0, env |-> NoEnv]

NoSteg == [op |-> "none", path |-> NoPath, exists |-> FALSE, file |-> <<>>,
           damage |-> NoDamage, env |-> NoEnv, meta |-> NoMeta]

\* the threads of the application that reach the local secrets
Threads == {"main", "encrypt", "decrypt"}

SecretFiles == {"chain.key", "db.salt"}

NoSecrets == [f \in SecretFiles |-> [exists |-> FALSE, data |-> <<>>]]

NoCall == [pc |-> "idle", file |-> "", key |-> <<>>]

NoCalls == [t \in Threads |-> NoCall]

NoneDrawn == [f \in SecretFiles |-> [generated |-> 0, returned |-> {}]]

NoAdd == [pc |-> "idle", prev_hash |-> <<>>, entry |-> <<>>]

NoAdds == [t \in Threads |-> NoAdd]

\* EncryptPanel after __init__ or reset_state
NoPanel == [_is_processing |-> FALSE, _selected_file |-> NoPath, pwd |-> 0,
            button |-> "normal"]

\* Python's None, which no user name equals
None == "None"

\* SessionManager.__init__
NoSession == [username |-> None, locked |-> TRUE, _last_activity |-> 0,
              _lock_requested |-> FALSE]

\* op and ret: the last call and its return value; active: the time of the
\* last login or touch; panic: a panic lock was asked for on an unlocked
\* session and no lock screen, login or logout has followed yet
NoSessCall == [op |-> "none", ret |-> FALSE, active |-> 0, panic |-> FALSE]

\* DecryptPanel after __init__ or reset_state, with nothing in its queue
NoDecryptPanel == [_is_processing |-> FALSE, _selected_file |-> "", button |-> "normal",
                   _poll_job |-> FALSE, ui_queue |-> <<>>]

NoDisk == [p \in {"f.enc", "f"} |-> "absent"]

NoOtd == [timers |-> 0, due |-> FALSE]

OthersIdle ==
    /\ dpanel = NoDecryptPanel
    /\ dworkers = <<>>
    /\ disk = NoDisk
    /\ reencrypt = NoOtd
    /\ sess = NoSession
    /\ screen = "auth"
    /\ sessResult = NoSessCall
    /\ panel = NoPanel
    /\ workers = <<>>
    /\ adds = NoAdds
    /\ added = 0
    /\ secret = NoSecrets
    /\ calls = NoCalls
    /\ drawn = NoneDrawn
    /\ damage = NoDamage
    /\ stegResult = NoSteg
    /\ target = NoFile
    /\ wipe = NoWipe
    /\ wops = <<>>
    /\ token = <<>>
    /\ tokenMade = NoToken
    /\ tokenResult = [op |-> "none", ok |-> FALSE, password |-> 0, msg |-> "",
                      at |-> 0, token |-> <<>>]

\* UserManager() on the vault it finds: nothing counted, nothing pending
InitUsersFrom(stored) ==
    /\ now = 0
    /\ users = stored
    /\ usersDb = stored
    /\ vault = IF stored = <<>>
               THEN [exists |-> FALSE, salt |-> 0, key |-> 0, body |-> "json"]
               ELSE [exists |-> TRUE, salt |-> 1, key |-> 1, body |-> "json"]
    /\ login_attempts = <<>>
    /\ lockout_until = <<>>
    /\ authResult = [op |-> "none", username |-> "", password |-> 0, ok |-> FALSE,
                     msg |-> "", n |-> 0, expired |-> FALSE, lifted |-> FALSE]
    /\ wrong = <<>>
    /\ _pending_otps = <<>>
    /\ otpResult = [op |-> "none", mobile |-> "", otp |-> "", purpose |-> "",
                    username |-> "", ok |-> FALSE, msg |-> "", replaced |-> -1]
    /\ issued = <<>>
    /\ ui = [at |-> "idle", username |-> "", password |-> 0, email |-> "", mobile |-> ""]
    /\ session = ""
    /\ redeemed = {}
    /\ OthersIdle

InitUsers == InitUsersFrom(<<>>)

InitEnvelope ==
    /\ \E content \in Contents : fs = [p \in {SrcPath} |-> content]
    /\ pc = "idle"
    /\ loc = NoLoc
    /\ progress = <<>>
    /\ result = NoResult
    /\ made = [p \in {} |-> NoEnv]
    /\ InitLog
    /\ InitUsers

NextEnvelope ==
    \/ \E src \in {SrcPath, MissingPath}, password \in Passwords, otd \in BOOLEAN,
          owner \in Owners :
            \/ EncryptFile(src, password, otd, owner)
            \/ EncryptFileReplace(src, password, otd, owner)
    \/ EfChunk \/ EfFinalize \/ EfReturn \/ EfRaise
    \/ EfrChunk \/ EfrMkstemp \/ EfrWriteHeader \/ EfrWriteCipher \/ EfrSync
    \/ EfrReplace \/ EfrReturn \/ EfrRaise
    \/ \E enc_path \in {SrcPath, EncPath}, password \in Passwords,
          output_path \in {NoPath, DecPath} :
            DecryptFile(enc_path, password, output_path)

SpecEnvelope == InitEnvelope /\ [][NextEnvelope]_vars

----------------------------------------------------------------------------
(* Properties of the envelope engine *)

EncryptOps == {"encrypt_file", "encrypt_file_replace"}

\* the last call was decrypt_file on an envelope that a successful encrypt call
\* produced and that is still stored unchanged
DecryptedEnvelope == result.op = "decrypt_file" /\ result.from.valid

SamePassword == result.password = result.from.password

\* C1: decrypt_file with the password given to encrypt_file or
\* encrypt_file_replace succeeds on its output and the file it writes holds
\* exactly the content that was encrypted, whatever the content, the password,
\* the one-time-decrypt flag and the owner string were.
C1_RoundTrip ==
    (DecryptedEnvelope /\ SamePassword) =>
        /\ result.ok
        /\ Exists(fs, result.path)
        /\ fs[result.path] = result.from.content

C1_Witness ==
    /\ DecryptedEnvelope /\ SamePassword /\ result.ok
    /\ Len(result.from.content) > ChunkSize
    /\ result.from.owner # <<>>
    /\ fs[result.path] = result.from.content

\* C2: decrypt_file with a password other than the one the envelope was
\* encrypted with returns the failure tuple with the generic message and
\* leaves every file as it was.
C2_WrongPassword ==
    [][(pc = "idle" /\ pc' = "idle" /\ result'.op = "decrypt_file"
          /\ result'.from.valid /\ result'.password # result'.from.password)
        => (/\ ~result'.ok
            /\ result'.err = GenericError
            /\ result'.path = NoPath
            /\ fs' = fs)]_vars

\* the two-byte length field of the file at p
StegLength(file) == Unpack16(SubSeq(file, SALT_SIZE + IV_SIZE + 2, SALT_SIZE + IV_SIZE + 3))

\* C3: the one-time-decrypt flag given to encrypt is the was_otd a following
\* decrypt reports, and read_steg_metadata returns the owner string given to
\* encrypt; without an owner string the length field is 0 and nothing is found.
C3_HeaderFidelity ==
    /\ (DecryptedEnvelope /\ SamePassword) =>
            (result.ok /\ result.was_otd = result.from.otd)
    /\ \A p \in DOMAIN made :
         LET meta == read_steg_metadata(fs, p)
         IN  IF made[p].owner # <<>>
             THEN meta.found /\ meta.owner = made[p].owner
             ELSE ~meta.found /\ StegLength(fs[p]) = 0

C3_Witness ==
    /\ DecryptedEnvelope /\ SamePassword
    /\ result.was_otd /\ result.from.otd
    /\ result.from.owner = <<JSON_QUOTE, JSON_ESCAPE>>
    /\ read_steg_metadata(fs, result.src).owner = <<JSON_QUOTE, JSON_ESCAPE>>

EfrStates == {"efr_loop", "efr_header", "efr_cipher", "efr_sync", "efr_replace",
              "efr_done"}

\* the positions at which the temporary file has been created
EfrTempStates == EfrStates \ {"efr_loop"}

NewEnvelope(l) == l.salt \o l.iv \o l.header \o l.ct

\* C4: at every point of encrypt_file_replace the original path holds the
\* whole pre-call content or the whole new envelope.
C4_CrashAtomicity ==
    pc \in EfrStates =>
        /\ Exists(fs, loc.src)
        /\ \/ fs[loc.src] = loc.orig
           \/ pc = "efr_done" /\ fs[loc.src] = NewEnvelope(loc)

C4_Witness ==
    /\ pc = "efr_sync"
    /\ fs[TempPath] = NewEnvelope(loc)
    /\ fs[loc.src] = loc.orig
    /\ Len(loc.orig) > ChunkSize

\* C5: when encrypt_file_replace returns a failure after the temporary file
\* was created, the temporary file is gone and the original path still holds
\* its pre-call content.
C5_AllOrNothing ==
    [][(pc \in EfrTempStates /\ pc' = "idle" /\ ~result'.ok)
        => (/\ ~Exists(fs', TempPath)
            /\ Exists(fs', loc.src)
            /\ fs'[loc.src] = loc.orig)]_vars

\* C6: the values handed to progress_cb never decrease, those handed over
\* while streaming lie in [0, 0.95], and a successful call ends with exactly
\* 1.0 after values that are all at most 0.95.
C6_Progress ==
    /\ \A i \in 1..(Len(progress) - 1) : Leq(progress[i], progress[i + 1])
    /\ pc \in {"ef_loop", "efr_loop"} =>
         \A i \in 1..Len(progress) : Leq(Zero, progress[i]) /\ Leq(progress[i], Cap)
    /\ (pc = "idle" /\ result.op \in EncryptOps /\ result.ok) =>
         /\ progress # <<>>
         /\ progress[Len(progress)] = Full
         /\ \A i \in 1..(Len(progress) - 1) :
              Leq(Zero, progress[i]) /\ Leq(progress[i], Cap)

C6_Witness ==
    /\ pc = "idle" /\ result.op \in EncryptOps /\ result.ok
    /\ Len(progress) = 3
    /\ progress[2] = Cap
    /\ progress[3] = Full

----------------------------------------------------------------------------
(* The activity log (core/history.py).  An entry is a record of strings     *)
(* with its chain hash under "_hash".  A digest is the tuple of what was    *)
(* hashed, so that two digests are equal only for equal key, fields and     *)
(* previous hash.                                                           *)

MAX_ENTRIES      == 3     \* HistoryManager.MAX_ENTRIES (200 in the source)
MaxAddsAfterEdit == 1     \* adds followed after an edit from outside

NoKey == <<>>

\* secrets.token_bytes(32): two of the possible draws
KeyDraws == {<<1>>, <<2>>}

Genesis == <<"GENESIS">>

\* {k: v for k, v in entry.items() if k != "_hash"}
Fields(entry) == [k \in (DOMAIN entry) \ {"_hash"} |-> entry[k]]

\* entry.get("_hash", "")
StoredHash(entry) == IF "_hash" \in DOMAIN entry THEN entry["_hash"] ELSE <<"">>

EntryHashNoUser(key, entry, prev_hash) ==
    <<"hmac", key, [k \in (DOMAIN entry) \ {"user"} |-> entry[k]], prev_hash>>

\* hmac.new(_chain_key(), json.dumps({"entry": entry, "prev": prev_hash},
\* sort_keys=True)).hexdigest()
_entry_hash(key, entry, prev_hash) == <<"hmac", key, entry, prev_hash>>

\* _chain_key(): the stored key, or a fresh one that is then stored
ChainKeys == IF chainKeyFile = NoKey THEN KeyDraws ELSE {chainKeyFile}

\* index (from 0) of the first entry at or after position i whose stored hash
\* is not the recomputed one, -1 when there is none
RECURSIVE FirstBroken(_, _, _, _)
FirstBroken(log, key, i, prev) ==
    IF i > Len(log) THEN -1
    ELSE IF StoredHash(log[i]) # _entry_hash(key, Fields(log[i]), prev) THEN i - 1
    ELSE FirstBroken(log, key, i + 1, StoredHash(log[i]))

\* (intact, message): the message names the broken index or the entry count
verify_chain(log, key) ==
    LET b == FirstBroken(log, key, 1, Genesis)
    IN  [intact |-> b = -1, index |-> b, count |-> IF b = -1 THEN Len(log) ELSE -1]

RECURSIVE Rechained(_, _, _)
Rechained(log, key, prev) ==
    IF log = <<>> THEN <<>>
    ELSE LET h == _entry_hash(key, Fields(Head(log)), prev)
         IN  <<[k \in (DOMAIN Head(log)) \cup {"_hash"} |->
                   IF k = "_hash" THEN h ELSE Head(log)[k]]>>
             \o Rechained(Tail(log), key, h)

_rechain(log, key) == Rechained(log, key, Genesis)

PrevHashGenesis(log) == Genesis

\* self.entries[-1]["_hash"] if self.entries else "GENESIS"
PrevHash(log) == IF log # <<>> THEN log[Len(log)]["_hash"] ELSE Genesis

TrimNoRechain(log, key) == SubSeq(log, Len(log) - MAX_ENTRIES + 1, Len(log))

\* self.entries = self.entries[-MAX_ENTRIES:]; self._rechain()
Trim(log, key) == _rechain(SubSeq(log, Len(log) - MAX_ENTRIES + 1, Len(log)), key)

NoExtra == [k \in {} |-> ""]

\* the calls tried: with extra data, without, and with extra data that names
\* keys the entry already has
AddInputs ==
    { [action |-> "ENCRYPT", filename |-> "f", algorithm |-> "AES-256-CBC",
       status |-> "Success", user |-> "alice", now |-> "t1",
       extra |-> [otd |-> "false", output |-> "f.enc"]],
      [action |-> "DECRYPT", filename |-> "f.enc", algorithm |-> "AES-256-CBC",
       status |-> "Failed", user |-> "", now |-> "t2", extra |-> NoExtra],
      [action |-> "SECURE_DELETE", filename |-> "f", algorithm |-> "AES-256-CBC",
       status |-> "Success", user |-> "alice", now |-> "t2",
       extra |-> [user |-> "bob", _hash |-> "forged"]] }

\* the entry dict before its hash is set: the fixed fields, then update(extra)
BuiltEntry(in) ==
    in.extra @@ [action |-> in.action, filename |-> in.filename,
                 algorithm |-> in.algorithm, status |-> in.status, user |-> in.user,
                 timestamp |-> in.now, display_time |-> in.now]

WithHash(entry, h) ==
    [k \in (DOMAIN entry) \cup {"_hash"} |-> IF k = "_hash" THEN h ELSE entry[k]]

\* HistoryManager.add
Add(in) ==
    /\ clean \/ after < MaxAddsAfterEdit
    /\ \E key \in ChainKeys :
         LET built    == BuiltEntry(in)
             entry    == WithHash(built, _entry_hash(key, Fields(built), PrevHash(entries)))
             appended == Append(entries, entry)
             kept     == IF Len(appended) > MAX_ENTRIES THEN Trim(appended, key)
                         ELSE appended
         IN  /\ entries' = kept
             /\ historyDb' = kept
             /\ chainKeyFile' = key
             /\ lastOp' = [op |-> "add", index |-> -1, data |-> Fields(built),
                          dropped |-> Len(appended) - Len(kept)]
    /\ after' = IF clean THEN 0 ELSE after + 1
    /\ UNCHANGED clean
    /\ OutsideLog

\* HistoryManager.clear
Clear ==
    /\ entries' = <<>>
    /\ historyDb' = <<>>
    /\ lastOp' = [op |-> "clear", index |-> -1, data |-> <<>>, dropped |-> 0]
    /\ clean' = TRUE
    /\ after' = 0
    /\ UNCHANGED chainKeyFile
    /\ OutsideLog

\* HistoryManager(): a new instance loads what is stored
Reload ==
    /\ entries' = historyDb
    /\ UNCHANGED <<historyDb, chainKeyFile, lastOp, clean, after>>
    /\ OutsideLog

\* The stored log is edited from outside while the application is closed, and
\* the application is started again: the new instance loads the edited log.
Edited(log, op, i) ==
    /\ clean /\ historyDb # <<>>
    /\ historyDb' = log
    /\ entries' = log
    /\ lastOp' = [op |-> op, index |-> i - 1, data |-> <<>>, dropped |-> 0]
    /\ clean' = FALSE
    /\ after' = 0
    /\ UNCHANGED chainKeyFile
    /\ OutsideLog

EditValues == {"x", "DECRYPT"}

\* one field other than the hash of entry i gets another value
EditField ==
    \E i \in 1..Len(historyDb) :
      \E k \in (DOMAIN historyDb[i]) \ {"_hash"}, v \in EditValues :
        /\ v # historyDb[i][k]
        /\ Edited([historyDb EXCEPT ![i][k] = v], "edit_field", i)

\* the stored hash of entry i gets another value: the genesis marker or the
\* hash of another entry
EditHash ==
    \E i \in 1..Len(historyDb) :
      \E h \in {Genesis} \cup {historyDb[j]["_hash"] : j \in 1..Len(historyDb)} :
        /\ h # historyDb[i]["_hash"]
        /\ Edited([historyDb EXCEPT ![i]["_hash"] = h], "edit_hash", i)

\* entry i is removed from the stored list
DeleteEntry ==
    \E i \in 1..Len(historyDb) :
      Edited(SubSeq(historyDb, 1, i - 1) \o SubSeq(historyDb, i + 1, Len(historyDb)),
             "delete", i)

\* entries i and j change places
SwapEntries ==
    \E i \in 1..Len(historyDb), j \in 1..Len(historyDb) :
      /\ i < j
      /\ Edited([historyDb EXCEPT ![i] = historyDb[j], ![j] = historyDb[i]], "swap", i)

EnvelopeIdle ==
    /\ fs = [p \in {SrcPath} |-> <<>>]
    /\ pc = "idle"
    /\ loc = NoLoc
    /\ progress = <<>>
    /\ result = NoResult
    /\ made = [p \in {} |-> NoEnv]

InitAudit == EnvelopeIdle /\ InitLog /\ InitUsers

NextAudit ==
    \/ \E in \in AddInputs : Add(in)
    \/ Clear
    \/ Reload
    \/ EditField \/ EditHash \/ DeleteEntry \/ SwapEntries

SpecAudit == InitAudit /\ [][NextAudit]_vars

----------------------------------------------------------------------------
(* Properties of the activity log *)

Verified == verify_chain(entries, chainKeyFile)

\* C7: after any sequence of add and clear from an empty log, verify_chain
\* reports the chain intact and reports the number of stored entries.
C7_ChainIntact == clean => (Verified.intact /\ Verified.count = Len(entries))

C7_Witness ==
    /\ clean /\ lastOp.op = "add"
    /\ Len(entries) = MAX_ENTRIES
    /\ "otd" \in DOMAIN entries[1]
    /\ entries[2]["user"] = "bob"
    /\ Verified.intact /\ Verified.count = MAX_ENTRIES

\* C8: after one field of entry i of an intact stored chain was changed, a data
\* field or the stored hash, verify_chain reports the chain broken at index i.
C8_TamperDetected ==
    lastOp.op \in {"edit_field", "edit_hash"} =>
        Verified = [intact |-> FALSE, index |-> lastOp.index, count |-> -1]

C8_Witness ==
    /\ lastOp.op = "edit_field" /\ lastOp.index = 1
    /\ Len(entries) = MAX_ENTRIES
    /\ entries[2]["user"] = "x"
    /\ Verified.index = 1

\* C9: the log never holds more than MAX_ENTRIES entries; an add to a full log
\* drops the oldest entry only, keeps the fields and the order of the others,
\* puts the new entry last, and leaves a chain that verifies from GENESIS.
C9_Trim ==
    /\ [](Len(entries) <= MAX_ENTRIES)
    /\ [][(lastOp'.op = "add" /\ Len(entries) = MAX_ENTRIES) =>
            /\ Len(entries') = MAX_ENTRIES
            /\ \A i \in 1..(MAX_ENTRIES - 1) : Fields(entries'[i]) = Fields(entries[i + 1])
            /\ Fields(entries'[MAX_ENTRIES]) = lastOp'.data
            /\ verify_chain(entries', chainKeyFile').intact]_vars

C9_Witness ==
    /\ lastOp.op = "add" /\ lastOp.dropped = 1
    /\ clean
    /\ Len(entries) = MAX_ENTRIES
    /\ Fields(entries[MAX_ENTRIES]) = lastOp.data
    /\ Fields(entries[1]) # Fields(entries[2])
    /\ Verified.intact

\* C10: after an entry was removed from the stored chain, or two entries
\* changed places, verify_chain reports the chain broken.
C10_RemovalDetected == lastOp.op \in {"delete", "swap"} => ~Verified.intact

\* EditField is the only writer of the value "x": an entry holding it is an
\* entry whose data was changed on disk
Tampered(entry) == \E k \in (DOMAIN entry) \ {"_hash"} : entry[k] = "x"

\* C11: while an entry whose data was changed on disk is still in the log,
\* verify_chain does not report the chain intact, whatever adds followed.
C11_NoAutoRepair ==
    (\E i \in 1..Len(entries) : Tampered(entries[i])) => ~Verified.intact

----------------------------------------------------------------------------
(* The user vault (core/user_manager.py): registration, login and lockout.  *)
(* A password is one of Passwords, each standing for a string of eight      *)
(* characters, or ShortPassword, standing for a string of seven.            *)

MAX_LOGIN_ATTEMPTS == 3
LOCKOUT_SECS       == 120
OTP_VALIDITY_SECS  == 300

TimeStep == 60     \* the clock is observed every TimeStep seconds
MaxTime  == 360    \* ... up to MaxTime

ShortPassword == 0

\* len(password)
PasswordLen(p) == IF p = ShortPassword THEN 7 ELSE 8

\* len(s) of the strings that are given as user names, e-mails and mobiles
StrLen(s) ==
    CASE s = ""        -> 0
      [] s = "al"      -> 2
      [] s = "bob"     -> 3
      [] s = "555"     -> 3
      [] s = "alice"   -> 5
      [] s = "alice.x" -> 7
      [] s = "alice@x" -> 7
      [] s = "bob@x"   -> 5
      [] s = "5550001" -> 7
      [] s = "5550002" -> 7

\* "@" in email
HasAt(email) == email \in {"alice@x", "bob@x"}

\* alice registers; bob never does
Usernames == {"alice", "bob"}

\* d[k] = v
DictSet(d, k, v) == [q \in (DOMAIN d) \cup {k} |-> IF q = k THEN v ELSE d[q]]

\* d.pop(k, None) / del d[k]
DictPop(d, k) == [q \in (DOMAIN d) \ {k} |-> d[q]]

\* d.get(k, default)
DictGet(d, k, default) == IF k \in DOMAIN d THEN d[k] ELSE default

\* salt + derive_key(password, salt)
hash_password(password, salt) == [salt |-> salt, key |-> derive_key(password, salt)]

\* compare_digest(derive_key(password, blob[:SALT_SIZE]), blob[SALT_SIZE:])
verify_password(password, blob) == derive_key(password, blob.salt) = blob.key

\* (ok, message) of a call, the number in the message apart; expired tells
\* that the call found a lockout that had run out, lifted that a reset
\* removed a running lockout or that a login directly follows such a reset
AuthResult(op, username, password, ok, msg, n) ==
    [op |-> op, username |-> username, password |-> password, ok |-> ok,
     msg |-> msg, n |-> n, expired |-> FALSE, lifted |-> FALSE]

NoLogin == -1

NoWrong == [n |-> 0, at |-> -1]

\* _get_db_salt: the salt on file, or a new one (of two values, the one
\* that the stored vault was not wrapped with)
DbSalt(v) == IF v.salt = 0 THEN (v.key % 2) + 1 ELSE v.salt

SaveUsersStale(u) ==
    /\ usersDb' = users
    /\ vault' = [exists |-> TRUE, salt |-> DbSalt(vault), key |-> DbSalt(vault),
                 body |-> "json"]

\* UserManager._save: the users as JSON, wrapped with the key of the salt
SaveUsers(u) ==
    /\ usersDb' = u
    /\ vault' = [exists |-> TRUE, salt |-> DbSalt(vault), key |-> DbSalt(vault),
                 body |-> "json"]

RegisterInputs ==
    { [username |-> "alice", password |-> 1, email |-> "alice@x", mobile |-> "5550001"],
      [username |-> "al",    password |-> 1, email |-> "alice@x", mobile |-> "5550001"],
      [username |-> "alice", password |-> ShortPassword, email |-> "alice@x",
       mobile |-> "5550001"],
      [username |-> "alice", password |-> 1, email |-> "alice.x", mobile |-> "5550001"],
      [username |-> "alice", password |-> 1, email |-> "", mobile |-> "5550001"],
      [username |-> "alice", password |-> 1, email |-> "alice@x", mobile |-> "555"] }

RegisterErrorNoDuplicate(in) ==
    IF StrLen(in.username) < 3 THEN "Username must be >= 3 characters."
    ELSE IF PasswordLen(in.password) < 8 THEN "Password must be >= 8 characters."
    ELSE IF in.email = "" \/ ~HasAt(in.email) THEN "Enter a valid email."
    ELSE IF in.mobile = "" \/ StrLen(in.mobile) < 7 THEN "Enter a valid mobile number."
    ELSE ""

\* why register refuses, "" when it does not
RegisterError(in) ==
    IF in.username \in DOMAIN users THEN "Username already taken."
    ELSE IF StrLen(in.username) < 3 THEN "Username must be >= 3 characters."
    ELSE IF PasswordLen(in.password) < 8 THEN "Password must be >= 8 characters."
    ELSE IF in.email = "" \/ ~HasAt(in.email) THEN "Enter a valid email."
    ELSE IF in.mobile = "" \/ StrLen(in.mobile) < 7 THEN "Enter a valid mobile number."
    ELSE ""

register(in) ==
    /\ IF RegisterError(in) # ""
       THEN /\ authResult' = AuthResult("register", in.username, in.password, FALSE,
                                        RegisterError(in), 0)
            /\ UNCHANGED <<users, usersDb, vault>>
       ELSE /\ \E salt \in SaltDraws :
                 users' = DictSet(users, in.username,
                            [password_hash |-> hash_password(in.password, salt),
                             email |-> in.email, mobile |-> in.mobile,
                             fullname |-> "", created_at |-> now,
                             last_login |-> NoLogin])
            /\ SaveUsers(users')
            /\ authResult' = AuthResult("register", in.username, in.password, TRUE,
                                        "Registration successful.", 0)
    /\ UNCHANGED <<now, login_attempts, lockout_until, wrong>>
    /\ UNCHANGED otpVars
    /\ OutsideUsers

\* time.time() < self.lockout_until[username]
LockActiveNever(t, until) == FALSE

LockActiveAtExpiry(t, until) == t <= until

LockActive(t, until) == t < until

\* self.login_attempts[username] >= MAX_LOGIN_ATTEMPTS
AttemptsReachedLate(n) == n > MAX_LOGIN_ATTEMPTS

AttemptsReached(n) == n >= MAX_LOGIN_ATTEMPTS

\* the counter after a successful login
AfterLoginKept(attempts, username) == attempts

AfterLogin(attempts, username) == DictSet(attempts, username, 0)

AfterUnknownCounted(attempts, username) ==
    DictSet(attempts, username, DictGet(attempts, username, 0) + 1)

\* the counters after a call for a username that is not in self.users
AfterUnknown(attempts, username) == attempts

authenticate(username, password) ==
    LET held    == username \in DOMAIN lockout_until
        locked  == held /\ LockActive(now, lockout_until[username])
        \* an expired lockout is dropped and the counter reset
        until1    == IF held THEN DictPop(lockout_until, username) ELSE lockout_until
        attempts1 == IF held THEN DictSet(login_attempts, username, 0) ELSE login_attempts
        wrong1    == IF held THEN DictPop(wrong, username) ELSE wrong
        n         == DictGet(attempts1, username, 0) + 1
        w         == DictGet(wrong1, username, NoWrong)
        Returns(ok, msg, k) ==
            [AuthResult("authenticate", username, password, ok, msg, k)
                EXCEPT !.expired = held /\ ~locked,
                       !.lifted = /\ authResult.op = "reset_password"
                                  /\ authResult.username = username
                                  /\ authResult.lifted]
    IN  /\ IF locked
           THEN /\ authResult' = Returns(FALSE, "Account locked.",
                                       lockout_until[username] - now)
                /\ UNCHANGED <<users, usersDb, vault, login_attempts, lockout_until, wrong>>
           ELSE IF username \notin DOMAIN users
           THEN /\ authResult' = Returns(FALSE, "Invalid username or password.", 0)
                /\ lockout_until' = until1
                /\ login_attempts' = AfterUnknown(attempts1, username)
                /\ wrong' = wrong1
                /\ UNCHANGED <<users, usersDb, vault>>
           ELSE IF verify_password(password, users[username].password_hash)
           THEN /\ login_attempts' = AfterLogin(attempts1, username)
                /\ users' = [users EXCEPT ![username].last_login = now]
                /\ SaveUsers(users')
                /\ lockout_until' = until1
                /\ wrong' = DictPop(wrong1, username)
                /\ authResult' = Returns(TRUE, "Login successful.", 0)
           ELSE /\ login_attempts' = DictSet(attempts1, username, n)
                /\ wrong' = DictSet(wrong1, username, [n |-> w.n + 1, at |-> now])
                /\ UNCHANGED <<users, usersDb, vault>>
                /\ IF AttemptsReached(n)
                   THEN /\ lockout_until' = DictSet(until1, username, now + LOCKOUT_SECS)
                        /\ authResult' = Returns(FALSE, "Too many failed attempts.", LOCKOUT_SECS)
                   ELSE /\ lockout_until' = until1
                        /\ authResult' = Returns(FALSE, "Invalid credentials.",
                                               MAX_LOGIN_ATTEMPTS - n)
        /\ UNCHANGED now
        /\ UNCHANGED otpVars
        /\ OutsideUsers

UnlockedKept(until, username) == until

\* self.lockout_until.pop(username, None)
Unlocked(until, username) == DictPop(until, username)

reset_password(username, new_password) ==
    /\ IF username \notin DOMAIN users
       THEN /\ authResult' = AuthResult("reset_password", username, new_password, FALSE,
                                        "User not found.", 0)
            /\ UNCHANGED <<users, usersDb, vault, login_attempts, lockout_until, wrong>>
       ELSE IF PasswordLen(new_password) < 8
       THEN /\ authResult' = AuthResult("reset_password", username, new_password, FALSE,
                                        "Password must be >= 8 characters.", 0)
            /\ UNCHANGED <<users, usersDb, vault, login_attempts, lockout_until, wrong>>
       ELSE /\ \E salt \in SaltDraws :
                 users' = [users EXCEPT ![username].password_hash =
                                            hash_password(new_password, salt)]
            /\ SaveUsers(users')
            /\ login_attempts' = DictPop(login_attempts, username)
            /\ lockout_until' = Unlocked(lockout_until, username)
            /\ wrong' = DictPop(wrong, username)
            /\ authResult' =
                  [AuthResult("reset_password", username, new_password, TRUE,
                              "Password reset successfully.", 0)
                     EXCEPT !.lifted = /\ username \in DOMAIN lockout_until
                                       /\ LockActive(now, lockout_until[username])]
    /\ UNCHANGED now
    /\ UNCHANGED otpVars
    /\ OutsideUsers

\* time passes
Tick ==
    /\ now + TimeStep <= MaxTime
    /\ now' = now + TimeStep
    /\ UNCHANGED <<loginVars, otpVars>>
    /\ OutsideUsers

InitLogin == EnvelopeIdle /\ InitLog /\ InitUsers

NextLogin ==
    \/ \E in \in RegisterInputs : register(in) /\ UNCHANGED uiVars
    \/ \E username \in Usernames, password \in Passwords :
          authenticate(username, password) /\ UNCHANGED uiVars
    \/ \E username \in Usernames, new_password \in Passwords \cup {ShortPassword} :
          reset_password(username, new_password) /\ UNCHANGED uiVars
    \/ Tick /\ UNCHANGED uiVars

SpecLogin == InitLogin /\ [][NextLogin]_vars

----------------------------------------------------------------------------
(* Properties of login and lockout *)

\* this step is an authenticate call for u
AuthCall(u) ==
    /\ now' = now
    /\ authResult'.op = "authenticate"
    /\ authResult'.username = u

\* the lockout of u is in force
LockedOut(u) == u \in DOMAIN lockout_until /\ now < lockout_until[u]

\* the password of the call of this step is not the one stored for u
WrongPassword(u) == ~verify_password(authResult'.password, users[u].password_hash)

\* wrong-password calls for u in a row before this step; a lockout that has
\* run out starts the count again
WrongBefore(u) ==
    IF u \in DOMAIN lockout_until THEN 0 ELSE DictGet(wrong, u, NoWrong).n

\* C12: of MAX_LOGIN_ATTEMPTS wrong-password calls in a row for one user, the
\* first two report 2 and 1 attempts left and the third reports the lockout
\* and locks the user until LOCKOUT_SECS after it; the lockout entry stays at
\* that time for as long as it exists.
C12_LockoutTrigger ==
    /\ [](\A u \in Usernames :
            (u \in DOMAIN wrong /\ wrong[u].n >= MAX_LOGIN_ATTEMPTS) =>
                /\ u \in DOMAIN lockout_until
                /\ lockout_until[u] = wrong[u].at + LOCKOUT_SECS)
    /\ [][\A u \in Usernames :
            (AuthCall(u) /\ u \in DOMAIN users /\ ~LockedOut(u) /\ WrongPassword(u)) =>
                /\ ~authResult'.ok
                /\ IF WrongBefore(u) + 1 < MAX_LOGIN_ATTEMPTS
                   THEN /\ authResult'.msg = "Invalid credentials."
                        /\ authResult'.n = MAX_LOGIN_ATTEMPTS - (WrongBefore(u) + 1)
                        /\ u \notin DOMAIN lockout_until'
                   ELSE /\ authResult'.msg = "Too many failed attempts."
                        /\ authResult'.n = LOCKOUT_SECS
                        /\ u \in DOMAIN lockout_until'
                        /\ lockout_until'[u] = now + LOCKOUT_SECS]_vars

C12_Witness ==
    /\ authResult.op = "authenticate" /\ authResult.username = "alice"
    /\ authResult.msg = "Too many failed attempts."
    /\ wrong["alice"] = [n |-> MAX_LOGIN_ATTEMPTS, at |-> now]
    /\ lockout_until["alice"] = now + LOCKOUT_SECS
    /\ now > 0

\* C13: a lockout entry exists only after MAX_LOGIN_ATTEMPTS wrong-password
\* calls in a row, with no successful login, run-out lockout or password reset
\* in between; a successful login leaves the attempt counter at zero.
C13_OnlyConsecutive ==
    /\ \A u \in DOMAIN lockout_until :
         u \in DOMAIN wrong /\ wrong[u].n >= MAX_LOGIN_ATTEMPTS
    /\ (authResult.op = "authenticate" /\ authResult.ok) =>
         /\ authResult.username \in DOMAIN login_attempts
         /\ login_attempts[authResult.username] = 0

C13_Witness ==
    /\ "alice" \in DOMAIN lockout_until
    /\ wrong["alice"].n = MAX_LOGIN_ATTEMPTS
    /\ users["alice"].last_login # NoLogin
    /\ users["alice"].last_login < wrong["alice"].at
    /\ login_attempts["alice"] = MAX_LOGIN_ATTEMPTS

\* C14: while the lockout of a user is in force, every authenticate call for
\* the user, with the right password too, is refused with the seconds that are
\* left, and changes neither the lockout, nor the counter, nor the vault.
C14_UnderLockout ==
    [][\A u \in Usernames :
         (AuthCall(u) /\ LockedOut(u)) =>
            /\ ~authResult'.ok
            /\ authResult'.msg = "Account locked."
            /\ authResult'.n = lockout_until[u] - now
            /\ UNCHANGED <<users, usersDb, login_attempts, lockout_until>>]_vars

C14_Witness ==
    /\ authResult.op = "authenticate" /\ authResult.username = "alice"
    /\ authResult.msg = "Account locked." /\ authResult.n = LOCKOUT_SECS - TimeStep
    /\ verify_password(authResult.password, users["alice"].password_hash)
    /\ lockout_until["alice"] = now + authResult.n
    /\ login_attempts["alice"] = MAX_LOGIN_ATTEMPTS

\* C15: the first authenticate call at or after the time a lockout runs out
\* removes the lockout and judges the password from a counter of zero: the
\* right password logs in, a wrong one is the first of three new attempts.
C15_LockoutExpiry ==
    [][\A u \in Usernames :
         (AuthCall(u) /\ u \in DOMAIN lockout_until /\ now >= lockout_until[u]) =>
            /\ u \notin DOMAIN lockout_until'
            /\ IF WrongPassword(u)
               THEN /\ ~authResult'.ok
                    /\ authResult'.msg = "Invalid credentials."
                    /\ authResult'.n = MAX_LOGIN_ATTEMPTS - 1
                    /\ login_attempts'[u] = 1
               ELSE /\ authResult'.ok
                    /\ login_attempts'[u] = 0
                    /\ users'[u].last_login = now]_vars

C15_Witness ==
    /\ authResult.op = "authenticate" /\ authResult.username = "alice"
    /\ authResult.expired
    /\ authResult.msg = "Invalid credentials." /\ authResult.n = MAX_LOGIN_ATTEMPTS - 1
    /\ login_attempts["alice"] = 1
    /\ "alice" \notin DOMAIN lockout_until

----------------------------------------------------------------------------
(* One-time codes (UserManager.generate_otp, verify_otp, clear_otp) *)

\* the mobile of alice's record, and one that no code is requested for
Mobiles == {"5550001", "5550002"}

\* str(secrets.randbelow(10 ** OTP_LENGTH)).zfill(OTP_LENGTH): two of the draws
OtpCodes == {"000001", "000002"}

\* what is typed into the dialog
OtpEntries == {"000001", "000002", " 000001 "}

\* otp_entered.strip()
Strip(s) == IF s = " 000001 " THEN "000001" ELSE s

\* the purpose and username the two flows of the login screen pass
OtpRequests == { [purpose |-> "register", username |-> "alice"],
                 [purpose |-> "reset",    username |-> "alice"] }

\* (ok, message) of a call on the pending codes; replaced is the attempt
\* counter of the record a generate_otp call replaced, -1 when there was none
OtpResult(op, mobile, otp, purpose, username, ok, msg) ==
    [op |-> op, mobile |-> mobile, otp |-> otp, purpose |-> purpose,
     username |-> username, ok |-> ok, msg |-> msg, replaced |-> -1]

NewOtpRecordDefaultPurpose(otp, t, purpose, username) ==
    [otp |-> otp, expiry |-> t + OTP_VALIDITY_SECS, purpose |-> "register",
     username |-> username, attempts |-> 0]

\* the record generate_otp stores
NewOtpRecord(otp, t, purpose, username) ==
    [otp |-> otp, expiry |-> t + OTP_VALIDITY_SECS, purpose |-> purpose,
     username |-> username, attempts |-> 0]

\* how a code was generated and what was submitted against it since:
\* submissions, wrong submissions, accepted submissions
Issue(otp, t) == [otp |-> otp, at |-> t, tries |-> 0, wrongs |-> 0, passed |-> 0]

generate_otp(mobile, purpose, username) ==
    /\ \E otp \in OtpCodes :
         /\ _pending_otps' = DictSet(_pending_otps, mobile,
                                     NewOtpRecord(otp, now, purpose, username))
         /\ otpResult' = [OtpResult("generate_otp", mobile, otp, purpose, username,
                                    TRUE, "")
                            EXCEPT !.replaced = IF mobile \in DOMAIN _pending_otps
                                                THEN _pending_otps[mobile].attempts
                                                ELSE -1]
         /\ issued' = DictSet(issued, mobile, Issue(otp, now))
    /\ UNCHANGED <<now, loginVars>>
    /\ OutsideUsers

\* time.time() > record["expiry"]
ExpiredNever(t, expiry) == FALSE

Expired(t, expiry) == t > expiry

\* record["attempts"] > 3
TooManyLate(attempts) == attempts > 4

TooMany(attempts) == attempts > 3

\* the pending codes after a mismatched submission
AfterMismatchDiscard(otps, mobile, record) == DictPop(otps, mobile)

AfterMismatch(otps, mobile, record) == DictSet(otps, mobile, record)

\* the submission as the history of the code sees it
Submitted(mobile, otp_entered, ok) ==
    IF mobile \notin DOMAIN issued THEN issued
    ELSE LET h == issued[mobile]
             right == Strip(otp_entered) = h.otp
         IN  DictSet(issued, mobile,
                [h EXCEPT !.tries  = IF h.tries < 4 THEN h.tries + 1 ELSE 4,
                          !.wrongs = IF ~right /\ h.wrongs < 4 THEN h.wrongs + 1
                                     ELSE h.wrongs,
                          !.passed = IF ok /\ h.passed < 4 THEN h.passed + 1
                                     ELSE h.passed])

verify_otp(mobile, otp_entered) ==
    LET Returns(ok, msg) ==
            /\ otpResult' = OtpResult("verify_otp", mobile, otp_entered, "", "", ok, msg)
            /\ issued' = Submitted(mobile, otp_entered, ok)
    IN  /\ IF mobile \notin DOMAIN _pending_otps
           THEN /\ Returns(FALSE, "No pending OTP. Request a new one.")
                /\ UNCHANGED _pending_otps
           ELSE LET record == _pending_otps[mobile]
                    counted == [record EXCEPT !.attempts = record.attempts + 1]
                IN  IF Expired(now, record.expiry)
                    THEN /\ _pending_otps' = DictPop(_pending_otps, mobile)
                         /\ Returns(FALSE, "OTP expired. Request a new one.")
                    ELSE IF TooMany(counted.attempts)
                    THEN /\ _pending_otps' = DictPop(_pending_otps, mobile)
                         /\ Returns(FALSE, "Too many wrong attempts. Request a new OTP.")
                    ELSE IF Strip(otp_entered) # record.otp
                    THEN /\ _pending_otps' = AfterMismatch(_pending_otps, mobile, counted)
                         /\ Returns(FALSE, "Incorrect OTP.")
                    ELSE /\ _pending_otps' = DictSet(_pending_otps, mobile, counted)
                         /\ Returns(TRUE, "OTP verified.")
        /\ UNCHANGED <<now, loginVars>>
        /\ OutsideUsers

clear_otp(mobile) ==
    /\ _pending_otps' = DictPop(_pending_otps, mobile)
    /\ otpResult' = OtpResult("clear_otp", mobile, "", "", "", TRUE, "")
    /\ issued' = DictPop(issued, mobile)
    /\ UNCHANGED <<now, loginVars>>
    /\ OutsideUsers

InitOtp == EnvelopeIdle /\ InitLog /\ InitUsers

NextOtp ==
    \/ \E req \in OtpRequests :
          generate_otp("5550001", req.purpose, req.username) /\ UNCHANGED uiVars
    \/ \E mobile \in Mobiles, otp_entered \in OtpEntries :
          verify_otp(mobile, otp_entered) /\ UNCHANGED uiVars
    \/ \E mobile \in Mobiles : clear_otp(mobile) /\ UNCHANGED uiVars
    \/ Tick /\ UNCHANGED uiVars

SpecOtp == InitOtp /\ [][NextOtp]_vars

----------------------------------------------------------------------------
(* Properties of the one-time codes *)

\* this step is a verify_otp call for mobile m
VerifyCall(m) ==
    /\ now' = now
    /\ otpResult'.op = "verify_otp"
    /\ otpResult'.mobile = m

\* this step is a generate_otp call for mobile m
GenerateCall(m) ==
    /\ now' = now
    /\ otpResult'.op = "generate_otp"
    /\ otpResult'.mobile = m

Pending(m) == m \in DOMAIN _pending_otps

\* the code submitted in this step is the one that was generated
RightCode(m) == Strip(otpResult'.otp) = issued[m].otp

\* C16: a verify_otp call made more than OTP_VALIDITY_SECS after the code was
\* generated fails as expired, with the right code too, and discards the
\* record; a call without a pending record reports that there is none.
C16_OtpExpiry ==
    [][\A m \in Mobiles :
         /\ (VerifyCall(m) /\ Pending(m) /\ now > issued[m].at + OTP_VALIDITY_SECS) =>
               /\ ~otpResult'.ok
               /\ otpResult'.msg = "OTP expired. Request a new one."
               /\ m \notin DOMAIN _pending_otps'
         /\ (VerifyCall(m) /\ ~Pending(m)) =>
               /\ ~otpResult'.ok
               /\ otpResult'.msg = "No pending OTP. Request a new one."
               /\ m \notin DOMAIN _pending_otps']_vars

C16_Witness ==
    /\ otpResult.op = "verify_otp" /\ otpResult.mobile = "5550001"
    /\ otpResult.msg = "OTP expired. Request a new one."
    /\ Strip(otpResult.otp) = issued["5550001"].otp
    /\ now > issued["5550001"].at + OTP_VALIDITY_SECS
    /\ ~Pending("5550001")

\* C17: once three wrong codes were submitted against a generated code, every
\* further submission fails, the right code included, and the record is gone
\* after the next one, until generate_otp is called again.
C17_AttemptCap ==
    [][\A m \in Mobiles :
         (VerifyCall(m) /\ m \in DOMAIN issued /\ issued[m].wrongs >= 3) =>
            /\ ~otpResult'.ok
            /\ m \notin DOMAIN _pending_otps']_vars

C17_Witness ==
    /\ otpResult.op = "verify_otp" /\ otpResult.mobile = "5550001"
    /\ otpResult.msg = "Too many wrong attempts. Request a new OTP."
    /\ Strip(otpResult.otp) = issued["5550001"].otp
    /\ issued["5550001"].wrongs = 3 /\ issued["5550001"].tries = 4
    /\ ~Pending("5550001")

\* C18: a mismatched submission within the validity time and the attempt cap
\* fails and changes nothing of the record but its attempt counter, and the
\* right code submitted as first, second or third attempt is accepted.
C18_OtpRetry ==
    [][\A m \in Mobiles :
         (VerifyCall(m) /\ Pending(m) /\ now <= issued[m].at + OTP_VALIDITY_SECS
             /\ issued[m].tries < 3) =>
            IF RightCode(m)
            THEN otpResult'.ok
            ELSE /\ ~otpResult'.ok
                 /\ otpResult'.msg = "Incorrect OTP."
                 /\ m \in DOMAIN _pending_otps'
                 /\ _pending_otps'[m] =
                      [_pending_otps[m] EXCEPT !.attempts = _pending_otps[m].attempts + 1]]_vars

C18_Witness ==
    /\ otpResult.op = "verify_otp" /\ otpResult.mobile = "5550001"
    /\ otpResult.ok
    /\ issued["5550001"].wrongs = 2 /\ issued["5550001"].tries = 3
    /\ issued["5550001"].passed = 1
    /\ now > issued["5550001"].at

\* C19: a successful verify_otp consumes the pending record.
C19_ConsumedOnSuccess ==
    (otpResult.op = "verify_otp" /\ otpResult.ok) => ~Pending(otpResult.mobile)

\* C20: generate_otp leaves for the mobile exactly the new record, with the
\* code it returns, the expiry OTP_VALIDITY_SECS from now, the purpose and
\* username asked for and no attempt counted, whatever was pending before, and
\* leaves the records of other mobiles alone.
C20_OtpOverwrite ==
    [][\A m \in Mobiles :
         GenerateCall(m) =>
            /\ DOMAIN _pending_otps' = (DOMAIN _pending_otps) \cup {m}
            /\ _pending_otps'[m] = [otp |-> otpResult'.otp,
                                    expiry |-> now + OTP_VALIDITY_SECS,
                                    purpose |-> otpResult'.purpose,
                                    username |-> otpResult'.username,
                                    attempts |-> 0]
            /\ \A q \in (DOMAIN _pending_otps) \ {m} :
                 _pending_otps'[q] = _pending_otps[q]]_vars

C20_Witness ==
    /\ otpResult.op = "generate_otp" /\ otpResult.mobile = "5550001"
    /\ otpResult.replaced = 3
    /\ otpResult.purpose = "reset"
    /\ _pending_otps["5550001"].attempts = 0
    /\ _pending_otps["5550001"].purpose = "reset"
    /\ _pending_otps["5550001"].expiry = now + OTP_VALIDITY_SECS
    /\ now > 0

----------------------------------------------------------------------------
(* Properties of registration and password reset *)

\* what the vault must refuse: a taken name, a name shorter than 3, a password
\* shorter than 8, an e-mail without "@", a mobile shorter than 7
Refusable(in) ==
    \/ in.username \in DOMAIN users
    \/ StrLen(in.username) < 3
    \/ PasswordLen(in.password) < 8
    \/ ~HasAt(in.email)
    \/ StrLen(in.mobile) < 7

\* C21: register refuses a taken user name, a user name shorter than 3, a
\* password shorter than 8, an e-mail without "@" and a mobile shorter than 7;
\* a refused register changes neither the vault in memory nor the stored one,
\* and no register changes the record of a user who exists.
C21_RegisterValidation ==
    [][\A in \in RegisterInputs :
         register(in) =>
            /\ Refusable(in) => ~authResult'.ok
            /\ ~authResult'.ok => UNCHANGED <<users, usersDb>>
            /\ \A u \in DOMAIN users :
                 /\ u \in DOMAIN users' /\ users'[u] = users[u]
                 /\ u \in DOMAIN usersDb' /\ usersDb'[u] = usersDb[u]]_vars

C21_Witness ==
    /\ authResult.op = "register" /\ authResult.username = "alice"
    /\ ~authResult.ok /\ authResult.msg = "Username already taken."
    /\ authResult.password = 1
    /\ verify_password(2, users["alice"].password_hash)
    /\ usersDb = users


----------------------------------------------------------------------------
(* The login screen and the settings panel: the handlers that call          *)
(* UserManager. A handler that waits in a dialog is one step per call it    *)
(* makes; ui.at tells where it waits.                                       *)

Idle == [at |-> "idle", username |-> "", password |-> 0, email |-> "", mobile |-> ""]

OutsideUi == UNCHANGED <<envVars, logVars, userVars, tokenVars, wipeVars, probeVars, secretVars, workerVars, panelVars, sessionVars, otdVars>>

\* the vault the application finds at start: none, or alice registered in an
\* earlier run
StoredVaults ==
    { <<>>,
      [u \in {"alice"} |->
          [password_hash |-> hash_password(1, [i \in 1..SALT_SIZE |-> 1]),
           email |-> "alice@x", mobile |-> "5550001", fullname |-> "",
           created_at |-> 0, last_login |-> NoLogin]] }

\* the user names whose code verify_otp(mobile, ...) has just accepted
Redeemed(mobile) ==
    IF otpResult'.ok /\ mobile \in DOMAIN _pending_otps
    THEN redeemed \cup {_pending_otps[mobile].username}
    ELSE redeemed

\* _handle_signup up to its dialog
HandleSignup(in) ==
    /\ ui.at = "idle" /\ session = ""
    /\ in.username # "" /\ in.email # "" /\ in.mobile # ""
    /\ generate_otp(in.mobile, "register", in.username)
    /\ ui' = [at |-> "signup_otp", username |-> in.username, password |-> in.password,
              email |-> in.email, mobile |-> in.mobile]
    /\ UNCHANGED <<session, redeemed>>

\* _handle_signup after the code was typed
SignupVerify(otp_input) ==
    /\ ui.at = "signup_otp"
    /\ verify_otp(ui.mobile, otp_input)
    /\ ui' = IF otpResult'.ok THEN [ui EXCEPT !.at = "signup_register"] ELSE Idle
    /\ redeemed' = Redeemed(ui.mobile)
    /\ UNCHANGED session

SignupRegister ==
    /\ ui.at = "signup_register"
    /\ register([username |-> ui.username, password |-> ui.password,
                 email |-> ui.email, mobile |-> ui.mobile])
    /\ ui' = Idle
    /\ UNCHANGED <<session, redeemed>>

\* _forgot_password up to its second dialog
ForgotPassword(username) ==
    /\ ui.at = "idle" /\ session = ""
    /\ username \in DOMAIN users
    /\ users[username].mobile # ""
    /\ generate_otp(users[username].mobile, "reset", username)
    /\ ui' = [Idle EXCEPT !.at = "forgot_otp", !.username = username,
                          !.mobile = users[username].mobile]
    /\ UNCHANGED <<session, redeemed>>

ForgotVerify(otp_input) ==
    /\ ui.at = "forgot_otp"
    /\ verify_otp(ui.mobile, otp_input)
    /\ ui' = IF otpResult'.ok THEN [ui EXCEPT !.at = "forgot_new"] ELSE Idle
    /\ redeemed' = Redeemed(ui.mobile)
    /\ UNCHANGED session

ForgotReset(new_password) ==
    /\ ui.at = "forgot_new"
    /\ reset_password(ui.username, new_password)
    /\ ui' = Idle
    /\ UNCHANGED <<session, redeemed>>

\* a dialog closed without input
DialogCancelled ==
    /\ ui.at \in {"signup_otp", "forgot_otp", "forgot_new"}
    /\ ui' = Idle
    /\ UNCHANGED <<session, redeemed>>
    /\ OutsideUi

\* _handle_login, and show_main when it succeeds
HandleLogin(username, password) ==
    /\ ui.at = "idle" /\ session = ""
    /\ authenticate(username, password)
    /\ session' = IF authResult'.ok THEN username ELSE ""
    /\ UNCHANGED <<ui, redeemed>>

Logout ==
    /\ ui.at = "idle" /\ session # ""
    /\ session' = ""
    /\ UNCHANGED <<ui, redeemed>>
    /\ OutsideUi

\* _do_change_pwd up to its authenticate call
DoChangePwd(old, new, con) ==
    /\ ui.at = "idle" /\ session # ""
    /\ new = con
    /\ PasswordLen(new) >= 8
    /\ authenticate(session, old)
    /\ ui' = IF authResult'.ok
             THEN [Idle EXCEPT !.at = "change_reset", !.username = session, !.password = new]
             ELSE Idle
    /\ UNCHANGED <<session, redeemed>>

\* _do_change_pwd after the current password was accepted
ChangeReset ==
    /\ ui.at = "change_reset"
    /\ reset_password(ui.username, ui.password)
    /\ ui' = Idle
    /\ UNCHANGED <<session, redeemed>>

\* how long a run of the application is followed
MaxAppTime == 120

\* what is typed into the signup form and the login form
SignupInputs ==
    { in \in RegisterInputs : in.email = "alice@x" /\ in.mobile = "5550001"
                              /\ in.username = "alice" }

LoginInputs ==
    { [username |-> "alice", password |-> 1], [username |-> "alice", password |-> 2],
      [username |-> "bob", password |-> 1] }

InitApp ==
    /\ EnvelopeIdle /\ InitLog
    /\ \E stored \in StoredVaults : InitUsersFrom(stored)

NextApp ==
    \/ \E in \in SignupInputs : HandleSignup(in)
    \/ \E otp_input \in OtpEntries : SignupVerify(otp_input)
    \/ SignupRegister
    \/ \E username \in Usernames : ForgotPassword(username)
    \/ \E otp_input \in OtpEntries : ForgotVerify(otp_input)
    \/ \E new_password \in Passwords \cup {ShortPassword} : ForgotReset(new_password)
    \/ DialogCancelled
    \/ \E in \in LoginInputs : HandleLogin(in.username, in.password)
    \/ Logout
    \/ \E old, new, con \in Passwords \cup {ShortPassword} : DoChangePwd(old, new, con)
    \/ ChangeReset
    \/ Tick /\ now < MaxAppTime /\ UNCHANGED uiVars

SpecApp == InitApp /\ [][NextApp]_vars

\* a step in which reset_password(username, ...) returns success
ResetDone(username) ==
    /\ ui.at \in {"forgot_new", "change_reset"} /\ ui'.at = "idle"
    /\ ui.username = username
    /\ authResult'.op = "reset_password" /\ authResult'.ok

\* C22: every successful reset_password(username, ...) of the application
\* comes after a successful verify_otp on a code issued for that username.
C22_ResetNeedsOtp ==
    [][\A username \in Usernames : ResetDone(username) => username \in redeemed]_vars

\* a step in which reset_password(username, ...) returns
ResetCall(username) ==
    /\ now' = now
    /\ authResult'.op = "reset_password" /\ authResult'.username = username
    /\ authResult' # authResult \/ reset_password(username, authResult'.password)

\* C23: a successful reset_password leaves the user without attempt counter
\* and without lockout; the login that follows it succeeds with the new
\* password, also when the user was locked out before the reset, and fails
\* with every other password; a reset with a short password or for an unknown
\* user fails and changes nothing.
C23_ResetEffect ==
    [][\A username \in Usernames :
         /\ (ResetCall(username) /\ authResult'.ok) =>
               /\ username \notin DOMAIN login_attempts'
               /\ username \notin DOMAIN lockout_until'
               /\ verify_password(authResult'.password, users'[username].password_hash)
         /\ (ResetCall(username) /\ (PasswordLen(authResult'.password) < 8
                                      \/ username \notin DOMAIN users)) =>
               /\ ~authResult'.ok
               /\ UNCHANGED <<users, usersDb, login_attempts, lockout_until>>
         /\ (authResult.op = "reset_password" /\ authResult.ok
               /\ authResult.username = username) =>
               \A password \in Passwords :
                  authenticate(username, password) =>
                     authResult'.ok = (password = authResult.password)]_vars

C23_Witness ==
    /\ authResult.op = "authenticate" /\ authResult.ok /\ authResult.lifted
    /\ authResult.password = 2
    /\ now < LOCKOUT_SECS

----------------------------------------------------------------------------
(* Time-locked password tokens (crypto.py). A token is a sequence of         *)
(* characters: 0..63 are the letters of the base64 alphabet by their value,  *)
(* then '=', a character outside the alphabet, and '.'.                      *)

B64_PAD == 64
B64_OTHER == 65
TOKEN_DOT == 66
_HMAC_KEY == 7

\* time.time() in half seconds: the clock shows now or half a second more
ClockHalves == {2 * now, 2 * now + 1}

TokenDurations == {0, 120}

\* json.dumps({"p": ..., "e": ...}).encode(): the password and the expiry as bytes
PayloadDumps(base_password, expiry) == <<base_password, expiry \div 256, expiry % 256>>

\* json.loads(...): the payload back, or that it is no payload
PayloadLoads(bytes) ==
    IF Len(bytes) = 3
    THEN [ok |-> TRUE, p |-> bytes[1], e |-> 256 * bytes[2] + bytes[3]]
    ELSE [ok |-> FALSE, p |-> 0, e |-> 0]

\* base64.urlsafe_b64encode
RECURSIVE urlsafe_b64encode(_)
urlsafe_b64encode(b) ==
    IF Len(b) = 0 THEN <<>>
    ELSE IF Len(b) = 1
    THEN <<b[1] \div 4, (b[1] % 4) * 16, B64_PAD, B64_PAD>>
    ELSE IF Len(b) = 2
    THEN <<b[1] \div 4, (b[1] % 4) * 16 + b[2] \div 16, (b[2] % 16) * 4, B64_PAD>>
    ELSE <<b[1] \div 4, (b[1] % 4) * 16 + b[2] \div 16,
           (b[2] % 16) * 4 + b[3] \div 64, b[3] % 64>>
         \o urlsafe_b64encode(Drop(b, 3))

\* binascii.a2b_base64 as base64.urlsafe_b64decode calls it: characters
\* outside the alphabet are skipped, a pad that completes a group ends the
\* input, the bits left over in the last letter are dropped
RECURSIVE B64Loop(_, _, _, _, _, _)
B64Loop(s, i, quad_pos, leftchar, pads, out) ==
    IF i > Len(s)
    THEN IF quad_pos = 0 THEN [ok |-> TRUE, bytes |-> out, msg |-> ""]
         ELSE IF quad_pos = 1
         THEN [ok |-> FALSE, bytes |-> <<>>, msg |-> "Invalid base64-encoded string"]
         ELSE [ok |-> FALSE, bytes |-> <<>>, msg |-> "Incorrect padding"]
    ELSE IF s[i] = B64_PAD
    THEN IF quad_pos >= 2 /\ quad_pos + pads + 1 >= 4
         THEN [ok |-> TRUE, bytes |-> out, msg |-> ""]
         ELSE B64Loop(s, i + 1, quad_pos, leftchar,
                      IF quad_pos >= 2 THEN pads + 1 ELSE pads, out)
    ELSE IF s[i] >= 64
    THEN B64Loop(s, i + 1, quad_pos, leftchar, pads, out)
    ELSE CASE quad_pos = 0 -> B64Loop(s, i + 1, 1, s[i], 0, out)
           [] quad_pos = 1 -> B64Loop(s, i + 1, 2, s[i] % 16, 0,
                                      Append(out, leftchar * 4 + s[i] \div 16))
           [] quad_pos = 2 -> B64Loop(s, i + 1, 3, s[i] % 4, 0,
                                      Append(out, leftchar * 16 + s[i] \div 4))
           [] OTHER        -> B64Loop(s, i + 1, 0, 0, 0,
                                      Append(out, leftchar * 64 + s[i]))

urlsafe_b64decode(s) == B64Loop(s, 1, 0, 0, 0, <<>>)

\* hmac.new(_HMAC_KEY, text, sha256).digest(): a digest no two texts share
HmacDigest(text) == text \o <<_HMAC_KEY>>

\* token.split(".")
Dots(tok) == {i \in 1..Len(tok) : tok[i] = TOKEN_DOT}

generate_time_locked_password(base_password, duration_secs, clock) ==
    LET expiry      == clock \div 2 + duration_secs
        b64_payload == urlsafe_b64encode(PayloadDumps(base_password, expiry))
        b64_sig     == urlsafe_b64encode(HmacDigest(b64_payload))
    IN  [password |-> base_password, duration |-> duration_secs, expiry |-> expiry,
         token |-> b64_payload \o <<TOKEN_DOT>> \o b64_sig]

TokenExpiredAtExpiry(clock, e) == clock >= 2 * e

\* time.time() > payload["e"]
TokenExpired(clock, e) == clock > 2 * e

\* (valid, base_password, error_msg), base_password 0 for None
validate_time_locked_password(tok, clock) ==
    LET Invalid(msg) == [ok |-> FALSE, password |-> 0, msg |-> msg]
    IN  IF Cardinality(Dots(tok)) # 1 THEN Invalid("Malformed token.")
        ELSE LET dot          == CHOOSE i \in Dots(tok) : TRUE
                 b64_payload  == Take(tok, dot - 1)
                 b64_sig      == Drop(tok, dot)
                 expected_sig == HmacDigest(b64_payload)
                 provided_sig == urlsafe_b64decode(b64_sig)
                 raw          == urlsafe_b64decode(b64_payload)
                 payload      == PayloadLoads(raw.bytes)
             IN  IF ~provided_sig.ok THEN Invalid(provided_sig.msg)
                 ELSE IF provided_sig.bytes # expected_sig
                 THEN Invalid("Signature mismatch - token tampered.")
                 ELSE IF ~raw.ok THEN Invalid(raw.msg)
                 ELSE IF ~payload.ok THEN Invalid("Expecting value")
                 ELSE IF TokenExpired(clock, payload.e) THEN Invalid("Token expired.")
                 ELSE [ok |-> TRUE, password |-> payload.p, msg |-> ""]

OutsideTokens == UNCHANGED <<envVars, logVars, userVars, uiVars, wipeVars, probeVars, secretVars, workerVars, panelVars, sessionVars, otdVars>>

\* a token is made, once in a run
GenerateToken(base_password, duration_secs, clock) ==
    /\ tokenMade = NoToken
    /\ tokenMade' = generate_time_locked_password(base_password, duration_secs, clock)
    /\ token' = tokenMade'.token
    /\ UNCHANGED tokenResult
    /\ OutsideTokens

\* the characters one character of a token is replaced with
Replacements(c) == {(c + 1) % 64, B64_PAD, B64_OTHER, TOKEN_DOT} \ {c}

\* whoever holds the token replaces one character of it
TamperToken(i, c) ==
    /\ token # <<>> /\ token = tokenMade.token
    /\ i \in 1..Len(token) /\ c \in Replacements(token[i])
    /\ token' = [token EXCEPT ![i] = c]
    /\ UNCHANGED <<tokenMade, tokenResult>>
    /\ OutsideTokens

ValidateToken(clock) ==
    /\ token # <<>>
    /\ LET r == validate_time_locked_password(token, clock)
       IN  tokenResult' = [op |-> "validate", ok |-> r.ok, password |-> r.password,
                           msg |-> r.msg, at |-> clock, token |-> token]
    /\ UNCHANGED <<token, tokenMade>>
    /\ OutsideTokens

InitTokens == EnvelopeIdle /\ InitLog /\ InitUsers

NextTokens ==
    \/ \E base_password \in Passwords, duration_secs \in TokenDurations, clock \in ClockHalves :
          GenerateToken(base_password, duration_secs, clock)
    \/ \E i \in 1..13, c \in 0..TOKEN_DOT : TamperToken(i, c)
    \/ \E clock \in ClockHalves : ValidateToken(clock)
    \/ Tick /\ UNCHANGED uiVars

SpecTokens == InitTokens /\ [][NextTokens]_vars

----------------------------------------------------------------------------
(* Properties of the tokens *)

\* the last call validated the token as it was made
ValidatedIssued ==
    tokenResult.op = "validate" /\ tokenResult.token = tokenMade.token

\* the last call validated a token that differs from the one made
ValidatedTampered ==
    tokenResult.op = "validate" /\ tokenResult.token # tokenMade.token

C25_TamperRejected ==
    ValidatedTampered =>
       /\ ~tokenResult.ok /\ tokenResult.password = 0
       /\ tokenResult.msg = "Signature mismatch - token tampered."

----------------------------------------------------------------------------
(* secure_delete (crypto.py), one step per system call; every call on the   *)
(* file may fail with an I/O error.                                         *)

MaxPasses == 4

PATTERNS == 3

OutsideWipe == UNCHANGED <<envVars, logVars, userVars, uiVars, tokenVars, probeVars, secretVars, workerVars, panelVars, sessionVars, otdVars>>

\* the files secure_delete is tried on
WipeContents == {<<>>, <<2>>, <<2, 3>>}

AllOf(v, n) == [k \in 1..n |-> v]

PatternOfFirst(i) == 0

\* patterns[i % len(patterns)]
PatternOf(i) == i % PATTERNS

\* what the pattern can write: zeros, ones, or secrets.token_bytes(size)
Patterns(p, size) ==
    CASE p = 0 -> {AllOf(0, size)}
      [] p = 1 -> {AllOf(ByteMod - 1, size)}
      [] OTHER -> TokenBytes(size)

Did(op, i, data, ok) == Append(wops, [op |-> op, i |-> i, data |-> data, ok |-> ok])

\* an exception leaves the with block: the file is closed, which may still
\* write out what was buffered
Raised ==
    /\ wipe' = [wipe EXCEPT !.pc = "except", !.raised = TRUE, !.buf = <<>>]
    /\ \E written \in BOOLEAN :
         target' = IF written /\ wipe.buf # <<>>
                   THEN [target EXCEPT !.data = wipe.buf] ELSE target

\* a file is put at the path before the call
CreateFile(content) ==
    /\ wipe.pc = "idle" /\ wipe.ret = "none" /\ ~target.exists
    /\ target' = [exists |-> TRUE, data |-> content, disk |-> content]
    /\ UNCHANGED <<wipe, wops>>
    /\ OutsideWipe

\* secure_delete up to open()
SecureDelete(passes) ==
    /\ wipe.pc = "idle" /\ wipe.ret = "none"
    /\ wipe' = IF ~target.exists
               THEN [NoWipe EXCEPT !.pc = "done", !.passes = passes, !.ret = "True"]
               ELSE [NoWipe EXCEPT !.pc = IF Len(target.data) = 0 THEN "remove" ELSE "open",
                                   !.passes = passes, !.size = Len(target.data)]
    /\ UNCHANGED <<target, wops>>
    /\ OutsideWipe

WipeOpen ==
    /\ wipe.pc = "open"
    /\ \/ /\ wipe' = [wipe EXCEPT !.pc = IF wipe.passes > 0 THEN "write" ELSE "remove"]
          /\ UNCHANGED target
       \/ Raised
    /\ UNCHANGED wops
    /\ OutsideWipe

\* fh.seek(0); fh.write(pattern)
WipeWrite ==
    /\ wipe.pc = "write"
    /\ \/ \E data \in Patterns(PatternOf(wipe.i), wipe.size) :
            /\ wipe' = [wipe EXCEPT !.pc = "flush", !.buf = data]
            /\ wops' = Did("write", wipe.i, data, TRUE)
            /\ UNCHANGED target
       \/ Raised /\ UNCHANGED wops
    /\ OutsideWipe

\* fh.flush()
WipeFlush ==
    /\ wipe.pc = "flush"
    /\ \/ /\ target' = [target EXCEPT !.data = wipe.buf]
          /\ wipe' = [wipe EXCEPT !.pc = "fsync", !.buf = <<>>]
          /\ wops' = Did("flush", wipe.i, wipe.buf, TRUE)
       \/ Raised /\ UNCHANGED wops
    /\ OutsideWipe

\* os.fsync(fh.fileno()), and the end of the pass
WipeFsync ==
    /\ wipe.pc = "fsync"
    /\ \/ /\ target' = [target EXCEPT !.disk = target.data]
          /\ wipe' = [wipe EXCEPT !.i = wipe.i + 1,
                                  !.pc = IF wipe.i + 1 < wipe.passes THEN "write"
                                         ELSE "remove"]
          /\ wops' = Did("fsync", wipe.i, target.data, TRUE)
       \/ Raised /\ UNCHANGED wops
    /\ OutsideWipe

\* os.remove(path) and return True
WipeRemove ==
    /\ wipe.pc = "remove"
    /\ \/ /\ target' = NoFile
          /\ wipe' = [wipe EXCEPT !.pc = "done", !.ret = "True"]
          /\ wops' = Did("remove", wipe.i, <<>>, TRUE)
       \/ Raised /\ wops' = Did("remove", wipe.i, <<>>, FALSE)
    /\ OutsideWipe

WipeExceptNoRemove ==
    /\ wipe.pc = "except"
    /\ wipe' = [wipe EXCEPT !.pc = "done", !.ret = "False"]
    /\ UNCHANGED <<target, wops>>
    /\ OutsideWipe

\* the except branch: os.remove(path), OSError passed over, return False
WipeExcept ==
    /\ wipe.pc = "except"
    /\ \E removed \in BOOLEAN :
         /\ target' = IF removed THEN NoFile ELSE target
         /\ wops' = Did("remove", wipe.i, <<>>, removed)
    /\ wipe' = [wipe EXCEPT !.pc = "done", !.ret = "False"]
    /\ OutsideWipe

InitWipe == EnvelopeIdle /\ InitLog /\ InitUsers

NextWipe ==
    \/ \E content \in WipeContents : CreateFile(content)
    \/ \E passes \in 0..MaxPasses : SecureDelete(passes)
    \/ WipeOpen
    \/ WipeWrite
    \/ WipeFlush
    \/ WipeFsync
    \/ WipeRemove
    \/ WipeExcept

SpecWipe == InitWipe /\ [][NextWipe]_vars

----------------------------------------------------------------------------
(* Properties of secure_delete *)

\* the k-th pass (from 0) as the three calls it consists of
PassDone(k) ==
    LET w == wops[3 * k + 1]
        f == wops[3 * k + 2]
        s == wops[3 * k + 3]
    IN  /\ w.op = "write" /\ w.i = k /\ Len(w.data) = wipe.size
        /\ CASE k % 3 = 0 -> w.data = AllOf(0, wipe.size)
             [] k % 3 = 1 -> w.data = AllOf(ByteMod - 1, wipe.size)
             [] OTHER     -> \A j \in 1..wipe.size : w.data[j] \in Byte
        /\ f.op = "flush" /\ f.i = k /\ f.data = w.data
        /\ s.op = "fsync" /\ s.i = k /\ s.data = w.data

\* C26: a successful secure_delete of a non-empty file has made exactly
\* `passes` overwrites, pass i with pattern i mod 3 over the whole original
\* length, each flushed and synced before the next starts, then one removal,
\* and the path is gone; an empty file is removed at once; without an error
\* nothing is removed before the last pass.
C26_Wipe ==
    /\ (wipe.ret = "True" /\ wipe.size > 0) =>
          /\ ~target.exists
          /\ Len(wops) = 3 * wipe.passes + 1
          /\ \A k \in 0..(wipe.passes - 1) : PassDone(k)
          /\ wops[Len(wops)].op = "remove" /\ wops[Len(wops)].ok
    /\ (wipe.ret = "True" /\ wipe.size = 0) =>
          /\ ~target.exists
          /\ Len(wops) <= 1
          /\ \A j \in 1..Len(wops) : wops[j].op = "remove" /\ wops[j].ok
    /\ (~wipe.raised /\ wipe.size > 0) =>
          \A j \in 1..Len(wops) : wops[j].op = "remove" => j = 3 * wipe.passes + 1

C26_Witness ==
    /\ wipe.ret = "True" /\ wipe.size = 2 /\ wipe.passes = 4
    /\ Len(wops) = 13
    /\ wops[7].data = <<1, 1>>
    /\ wops[10].data = <<0, 0>>
    /\ ~target.exists

\* C27: after an I/O error secure_delete has tried to remove the file and
\* returns failure; it returns success only when the path is gone.
C27_WipeFailure ==
    /\ (wipe.pc = "done" /\ wipe.raised) =>
          /\ wipe.ret = "False"
          /\ wops # <<>> /\ wops[Len(wops)].op = "remove"
    /\ wipe.ret = "True" => ~target.exists

C27_Witness ==
    /\ wipe.pc = "done" /\ wipe.raised /\ wipe.ret = "False"
    /\ wipe.i = 1 /\ wipe.passes = 4
    /\ target.exists /\ target.data = AllOf(ByteMod - 1, 2)
    /\ wops[Len(wops)].op = "remove" /\ ~wops[Len(wops)].ok

----------------------------------------------------------------------------
(* Damaged envelopes: f is encrypted to f.enc, one change is made to       *)
(* f.enc, then decrypt_file and read_steg_metadata are called on it.        *)

OutsideProbe == UNCHANGED <<logVars, userVars, uiVars, tokenVars, wipeVars, secretVars, workerVars, panelVars, sessionVars, otdVars>>

\* where the unencrypted header of an envelope ends
HeaderEnd(file) ==
    LET fixed == SALT_SIZE + IV_SIZE + 3
    IN  IF Len(file) < fixed THEN fixed
        ELSE fixed + Unpack16(SubSeq(file, fixed - 1, fixed))

Undamaged == damage.kind = "none" /\ EncPath \in DOMAIN made /\ made[EncPath].valid

\* the envelope file loses its end
TruncateEnvelope(n) ==
    /\ pc = "idle" /\ Undamaged
    /\ n < Len(fs[EncPath])
    /\ fs' = WriteFile(fs, EncPath, Take(fs[EncPath], n))
    /\ damage' = [kind |-> "truncate", at |-> n, env |-> made[EncPath]]
    /\ made' = Forget(made, EncPath)
    /\ UNCHANGED <<pc, loc, progress, result, stegResult>>
    /\ OutsideProbe

\* one byte of the envelope file is changed
CorruptEnvelope(i) ==
    /\ pc = "idle" /\ Undamaged
    /\ i \in 1..Len(fs[EncPath])
    /\ fs' = WriteFile(fs, EncPath, [fs[EncPath] EXCEPT ![i] = (@ + 1) % ByteMod])
    /\ damage' = [kind |-> "corrupt", at |-> i, env |-> made[EncPath]]
    /\ made' = Forget(made, EncPath)
    /\ UNCHANGED <<pc, loc, progress, result, stegResult>>
    /\ OutsideProbe

ReadStegMetadata(enc_path) ==
    /\ pc = "idle"
    /\ stegResult' = [op |-> "read_steg_metadata", path |-> enc_path,
                      exists |-> Exists(fs, enc_path),
                      file |-> IF Exists(fs, enc_path) THEN fs[enc_path] ELSE <<>>,
                      damage |-> damage,
                      env |-> IF enc_path \in DOMAIN made THEN made[enc_path]
                              ELSE IF enc_path = EncPath THEN damage.env ELSE NoEnv,
                      meta |-> read_steg_metadata(fs, enc_path)]
    /\ UNCHANGED <<envVars, damage>>
    /\ OutsideProbe

\* the longest envelope that is damaged
MaxEnvelope == 16

\* the files that are encrypted
ProbeContents == {<<>>, <<0, 1, 0>>}

InitProbe ==
    /\ \E content \in ProbeContents : fs = [p \in {SrcPath} |-> content]
    /\ pc = "idle"
    /\ loc = NoLoc
    /\ progress = <<>>
    /\ result = NoResult
    /\ made = [p \in {} |-> NoEnv]
    /\ InitLog
    /\ InitUsers

NextProbe ==
    \/ \E password \in Passwords, owner \in {<<>>, <<0>>} :
          EncryptFile(SrcPath, password, TRUE, owner)
    \/ EfChunk
    \/ EfFinalize
    \/ EfReturn
    \/ \E n \in 0..MaxEnvelope : TruncateEnvelope(n)
    \/ \E i \in 1..MaxEnvelope : CorruptEnvelope(i)
    \/ \E password \in Passwords :
          result.op # "decrypt_file" /\ DecryptFile(EncPath, password, DecPath)
    \/ \E enc_path \in {EncPath, MissingPath} :
          stegResult.op = "none" /\ ReadStegMetadata(enc_path)

SpecProbe == InitProbe /\ [][NextProbe]_vars

----------------------------------------------------------------------------
(* Properties of decrypt_file and read_steg_metadata on damaged envelopes *)

\* C28: a decrypt_file call on an existing file that fails returns the one
\* failure result (the generic message, no path, was_otd false) and writes
\* nothing, whether the header was truncated or malformed, the ciphertext
\* corrupted or the password wrong.
C28_NoOracle ==
    [][\A password \in Passwords :
         (DecryptFile(EncPath, password, DecPath) /\ Exists(fs, EncPath)
            /\ ~result'.ok) =>
               /\ result'.err = GenericError
               /\ result'.path = NoPath
               /\ ~result'.was_otd
               /\ fs' = fs]_vars

C28_Witness ==
    /\ result.op = "decrypt_file" /\ ~result.ok /\ result.err = GenericError
    /\ damage.kind = "truncate" /\ damage.at < SALT_SIZE + IV_SIZE + 3
    /\ damage.env.valid /\ damage.env.otd
    /\ result.password = damage.env.password

\* what the header an envelope was written with says
Written(env) ==
    IF env.valid /\ env.owner # <<>>
    THEN [found |-> TRUE, owner |-> env.owner, ts |-> env.ts]
    ELSE NoMeta

\* where the payload of the header starts
PayloadStart == SALT_SIZE + IV_SIZE + 3

\* what read_steg_metadata answered, against the file it was called on
StegAnswer ==
    LET r == stegResult
    IN  r.op = "read_steg_metadata" =>
          /\ ~r.exists => r.meta = NoMeta
          /\ (r.env.valid /\ r.damage.kind = "none") => r.meta = Written(r.env)
          /\ (r.env.valid /\ r.damage.kind = "corrupt"
                /\ r.damage.at > HeaderEnd(r.file)) => r.meta = Written(r.env)
          /\ (r.env.valid /\ r.damage.kind = "truncate"
                /\ r.damage.at >= HeaderEnd(r.file)
                /\ Len(r.file) >= PayloadStart) => r.meta = Written(r.env)
          /\ (r.damage.kind = "truncate" /\ Len(r.file) < HeaderEnd(r.file)) =>
                r.meta = NoMeta
          /\ (r.damage.kind = "corrupt"
                /\ r.damage.at \in (PayloadStart + 1)..(PayloadStart + 3)
                /\ r.damage.at <= HeaderEnd(r.file)) => r.meta = NoMeta

\* C29: read_steg_metadata returns what the header was written with,
\* whatever the password and the ciphertext, also after the ciphertext was
\* changed or cut; it returns nothing for a missing file, a truncated header,
\* a payload without the magic prefix and a payload that is no JSON; it
\* changes no file.
C29_StegRead ==
    /\ [][\A enc_path \in {EncPath, MissingPath} :
            ReadStegMetadata(enc_path) => fs' = fs]_vars
    /\ []StegAnswer

C29_Witness ==
    /\ stegResult.op = "read_steg_metadata"
    /\ stegResult.damage.kind = "corrupt"
    /\ stegResult.damage.at > HeaderEnd(stegResult.file)
    /\ stegResult.env.password = 2
    /\ stegResult.meta.found /\ stegResult.meta.owner = <<0>>

----------------------------------------------------------------------------
(* The vault file and the start of UserManager (user_manager.py). The body  *)
(* of USERS_DB is the stored JSON ("json"), something that decrypts but is  *)
(* no JSON ("garbage"), or a cut file ("cut"); it decrypts when it is whole *)
(* and the salt in db.salt is the one it was wrapped with.                  *)

\* _decrypt_blob and json.loads go through
Loads(v, salt) == v.body = "json" /\ v.key = salt

LoadedAnyway(ok, stored) == stored

\* the try and except of _load
Loaded(ok, stored) == IF ok THEN stored ELSE <<>>

\* UserManager(): empty dictionaries, then _load
UserManagerInit ==
    /\ IF ~vault.exists
       THEN /\ users' = <<>>
            /\ UNCHANGED vault
            /\ authResult' = AuthResult("UserManager", "", 0, TRUE, "missing", 0)
       ELSE /\ vault' = [vault EXCEPT !.salt = DbSalt(vault)]
            /\ users' = Loaded(Loads(vault, DbSalt(vault)), usersDb)
            /\ authResult' = AuthResult("UserManager", "", 0, TRUE,
                                        IF Loads(vault, DbSalt(vault)) THEN "loaded"
                                        ELSE "Could not load users DB", 0)
    /\ login_attempts' = <<>>
    /\ lockout_until' = <<>>
    /\ wrong' = <<>>
    /\ _pending_otps' = <<>>
    /\ issued' = <<>>
    /\ UNCHANGED <<now, usersDb, otpResult>>
    /\ OutsideUsers

\* between two runs USERS_DB is deleted, cut, or replaced, or db.salt is deleted
DamageVault(how) ==
    /\ vault.exists /\ vault.body = "json" /\ vault.salt = vault.key
    /\ vault' = CASE how = "delete"  -> [vault EXCEPT !.exists = FALSE]
                  [] how = "cut"     -> [vault EXCEPT !.body = "cut"]
                  [] how = "garbage" -> [vault EXCEPT !.body = "garbage"]
                  [] OTHER           -> [vault EXCEPT !.salt = 0]
    /\ UNCHANGED <<now, users, usersDb, login_attempts, lockout_until, authResult, wrong>>
    /\ UNCHANGED otpVars
    /\ OutsideUsers

InitVault == EnvelopeIdle /\ InitLog /\ InitUsers

NextVault ==
    \/ \E in \in SignupInputs : register(in) /\ UNCHANGED uiVars
    \/ \E in \in LoginInputs : authenticate(in.username, in.password) /\ UNCHANGED uiVars
    \/ \E password \in Passwords : reset_password("alice", password) /\ UNCHANGED uiVars
    \/ \E how \in {"delete", "cut", "garbage", "salt"} : DamageVault(how) /\ UNCHANGED uiVars
    \/ UserManagerInit /\ UNCHANGED uiVars

SpecVault == InitVault /\ [][NextVault]_vars

\* the last call was UserManager() and it found no vault it could load
LoadFailed == authResult.op = "UserManager" /\ authResult.msg # "loaded"

\* C30: with the vault file missing, undecryptable or unparsable,
\* UserManager() starts with no users; authenticate then fails for every
\* username and password, and register of a username that was stored succeeds.
C30_VaultLoadFailure ==
    /\ [](LoadFailed => users = <<>>)
    /\ [][(UserManagerInit /\ (~vault.exists \/ vault.body # "json"
                                \/ vault.salt # vault.key)) => LoadFailed']_vars
    /\ [][LoadFailed =>
            /\ \A in \in LoginInputs :
                 authenticate(in.username, in.password) => ~authResult'.ok
            /\ \A in \in SignupInputs :
                 (register(in) /\ in.username \in DOMAIN usersDb
                    /\ PasswordLen(in.password) >= 8) =>
                      /\ authResult'.ok
                      /\ in.username \in DOMAIN users']_vars

C30_Witness ==
    /\ LoadFailed /\ authResult.msg = "Could not load users DB"
    /\ vault.exists /\ vault.body = "garbage"
    /\ "alice" \in DOMAIN usersDb
    /\ users = <<>>

----------------------------------------------------------------------------
(* The two stores side by side: the calls that write the vault or the log,  *)
(* and new instances of both managers loading what is on disk.              *)

\* what UserManager() would load now
PersistedUsers ==
    IF vault.exists THEN Loaded(Loads(vault, DbSalt(vault)), usersDb) ELSE <<>>

\* what HistoryManager() would load now
PersistedEntries == historyDb

\* the log entry written in this composition
StoreAdds == {in \in AddInputs : in.action = "ENCRYPT"}

InitStores == EnvelopeIdle /\ InitLog /\ InitUsers

NextStores ==
    \/ \E in \in SignupInputs : register(in) /\ UNCHANGED uiVars
    \/ \E in \in LoginInputs : authenticate(in.username, in.password) /\ UNCHANGED uiVars
    \/ \E password \in Passwords : reset_password("alice", password) /\ UNCHANGED uiVars
    \/ \E r \in OtpRequests : generate_otp("5550001", r.purpose, r.username)
                                /\ UNCHANGED uiVars
    \/ UserManagerInit /\ UNCHANGED uiVars
    \/ \E in \in StoreAdds : Add(in)
    \/ Clear
    \/ Reload

SpecStores == InitStores /\ [][NextStores]_vars

\* the last call was a vault operation that succeeded
VaultWritten ==
    authResult.ok /\ authResult.op \in {"register", "authenticate", "reset_password"}

\* C31: after every successful register, authenticate and reset_password the
\* stored vault decodes to the users in memory, and after every add and clear
\* the stored log is the entries in memory, so a new manager loaded at that
\* point has the same users or entries; a new UserManager has no attempt
\* counter, no lockout and no pending code.
C31_ImmediatePersistence ==
    /\ [](VaultWritten => PersistedUsers = users)
    /\ [][(UserManagerInit /\ VaultWritten) => users' = users]_vars
    /\ [][UserManagerInit => /\ login_attempts' = <<>>
                             /\ lockout_until' = <<>>
                             /\ _pending_otps' = <<>>]_vars
    /\ [][((\E in \in StoreAdds : Add(in)) \/ Clear) =>
             PersistedEntries' = entries']_vars
    /\ [][(Reload /\ lastOp.op \in {"add", "clear"}) => entries' = entries]_vars

C31_Witness ==
    /\ VaultWritten /\ authResult.op = "authenticate"
    /\ "alice" \in DOMAIN users /\ users["alice"].last_login # NoLogin
    /\ PersistedUsers = users
    /\ login_attempts # <<>> /\ _pending_otps # <<>>
    /\ lastOp.op = "add" /\ lastOp.dropped > 0
    /\ PersistedEntries = entries

----------------------------------------------------------------------------
(* The per-install secrets (history.py _chain_key, user_manager.py          *)
(* _get_db_salt).  Both functions test for the file, read it when it is     *)
(* there, and otherwise draw a value, write it and return it; a call is     *)
(* followed system call by system call, for the threads that make it: the   *)
(* workers of the encrypt and decrypt panels through history.add, the main  *)
(* thread through the history panel and the login screen.                   *)

OutsideSecrets ==
    UNCHANGED <<envVars, logVars, userVars, uiVars, tokenVars, wipeVars, probeVars,
                workerVars, panelVars, sessionVars,
                otdVars>>

\* the call returns value
Returned(f, value) == [drawn EXCEPT ![f].returned = @ \cup {value}]

\* os.path.exists(_CHAIN_KEY_FILE) / os.path.exists(_DB_SALT_FILE)
SecretExists(t, f) ==
    /\ calls[t].pc = "idle"
    /\ calls' = [calls EXCEPT ![t] = [pc |-> IF secret[f].exists THEN "read" ELSE "token",
                                      file |-> f, key |-> <<>>]]
    /\ UNCHANGED <<secret, drawn>>
    /\ OutsideSecrets

\* with open(file, "rb") as f: return f.read()
SecretRead(t) ==
    /\ calls[t].pc = "read"
    /\ calls' = [calls EXCEPT ![t] = NoCall]
    /\ drawn' = Returned(calls[t].file, secret[calls[t].file].data)
    /\ UNCHANGED secret
    /\ OutsideSecrets

\* secrets.token_bytes(...)
SecretToken(t) ==
    /\ calls[t].pc = "token"
    /\ \E key \in KeyDraws : calls' = [calls EXCEPT ![t].pc = "open", ![t].key = key]
    /\ drawn' = [drawn EXCEPT ![calls[t].file].generated = @ + 1]
    /\ UNCHANGED secret
    /\ OutsideSecrets

\* open(file, "wb"): the file is there and empty
SecretOpen(t) ==
    /\ calls[t].pc = "open"
    /\ secret' = [secret EXCEPT ![calls[t].file] = [exists |-> TRUE, data |-> <<>>]]
    /\ calls' = [calls EXCEPT ![t].pc = "write"]
    /\ UNCHANGED drawn
    /\ OutsideSecrets

\* f.write(key), the file is closed, return key
SecretWrite(t) ==
    /\ calls[t].pc = "write"
    /\ secret' = [secret EXCEPT ![calls[t].file].data = calls[t].key]
    /\ calls' = [calls EXCEPT ![t] = NoCall]
    /\ drawn' = Returned(calls[t].file, calls[t].key)
    /\ OutsideSecrets

InitSecrets == EnvelopeIdle /\ InitLog /\ InitUsers

NextSecrets ==
    \/ \E t \in Threads, f \in SecretFiles : SecretExists(t, f)
    \/ \E t \in Threads : SecretRead(t)
    \/ \E t \in Threads : SecretToken(t)
    \/ \E t \in Threads : SecretOpen(t)
    \/ \E t \in Threads : SecretWrite(t)

SpecSecrets == InitSecrets /\ [][NextSecrets]_vars

\* C32: whatever the order and interleaving of the calls to _chain_key and to
\* _get_db_salt, each secret is generated at most once and all calls for it
\* return the same value.
C32_GeneratedOnce ==
    \A f \in SecretFiles :
        /\ drawn[f].generated <= 1
        /\ Cardinality(drawn[f].returned) <= 1

----------------------------------------------------------------------------
(* history.add called from several threads.  The worker of the encrypt      *)
(* panel, the worker of the decrypt panel and the main thread all call      *)
(* app.history.add on the one HistoryManager, which takes no lock; a call   *)
(* is followed statement by statement.                                      *)

MaxWorkerAdds == 4    \* history.add calls followed in one run

OutsideWorkers ==
    UNCHANGED <<envVars, userVars, uiVars, tokenVars, wipeVars, probeVars, secretVars,
                panelVars, sessionVars,
                otdVars>>

\* what each thread logs: _run_encrypt, _run_decrypt, _finish_ok
AddOf(t) ==
    LET in == CHOOSE a \in AddInputs :
                  a.action = CASE t = "encrypt" -> "ENCRYPT"
                               [] t = "decrypt" -> "DECRYPT"
                               [] OTHER         -> "SECURE_DELETE"
    IN  IF t = "main" THEN [in EXCEPT !.extra = NoExtra] ELSE in

Running == {t \in Threads : adds[t].pc # "idle"}

\* prev_hash = self.entries[-1]["_hash"] if self.entries else "GENESIS"
AddPrevHash(t) ==
    /\ adds[t].pc = "idle"
    /\ added + Cardinality(Running) < MaxWorkerAdds
    /\ adds' = [adds EXCEPT ![t] = [pc |-> "hash", prev_hash |-> PrevHash(entries),
                                    entry |-> BuiltEntry(AddOf(t))]]
    /\ UNCHANGED <<entries, historyDb, chainKeyFile, lastOp, clean, after, added>>
    /\ OutsideWorkers

\* entry["_hash"] = _entry_hash({...}, prev_hash)
AddEntryHash(t) ==
    /\ adds[t].pc = "hash"
    /\ \E key \in ChainKeys :
         /\ adds' = [adds EXCEPT ![t].pc = "append",
                                 ![t].entry = WithHash(@, _entry_hash(key, Fields(@),
                                                                      adds[t].prev_hash))]
         /\ chainKeyFile' = key
    /\ UNCHANGED <<entries, historyDb, lastOp, clean, after, added>>
    /\ OutsideWorkers

\* self.entries.append(entry), and the trim when the list is over the limit
AddAppend(t) ==
    /\ adds[t].pc = "append"
    /\ LET appended == Append(entries, adds[t].entry)
       IN  entries' = IF Len(appended) > MAX_ENTRIES THEN Trim(appended, chainKeyFile)
                      ELSE appended
    /\ adds' = [adds EXCEPT ![t].pc = "save"]
    /\ UNCHANGED <<historyDb, chainKeyFile, lastOp, clean, after, added>>
    /\ OutsideWorkers

\* self._save(), and the call returns
AddSave(t) ==
    /\ adds[t].pc = "save"
    /\ historyDb' = entries
    /\ adds' = [adds EXCEPT ![t] = NoAdd]
    /\ added' = added + 1
    /\ lastOp' = [op |-> "add", index |-> -1, data |-> Fields(adds[t].entry),
                  dropped |-> 0]
    /\ UNCHANGED <<entries, chainKeyFile, clean, after>>
    /\ OutsideWorkers

InitWorkers == EnvelopeIdle /\ InitLog /\ InitUsers

NextWorkers ==
    \/ \E t \in Threads : AddPrevHash(t)
    \/ \E t \in Threads : AddEntryHash(t)
    \/ \E t \in Threads : AddAppend(t)
    \/ \E t \in Threads : AddSave(t)

SpecWorkers == InitWorkers /\ [][NextWorkers]_vars

\* C33: for every interleaving of the history.add calls of the encrypt
\* worker, the decrypt worker and the main thread, once the calls have
\* returned every added entry is in the log (up to the cap) and verify_chain
\* reports the chain intact.
C33_SerializedAdds ==
    Running = {} =>
        /\ Len(entries) = Min(added, MAX_ENTRIES)
        /\ verify_chain(entries, chainKeyFile).intact

----------------------------------------------------------------------------
(* The encrypt panel (ui/encrypt_panel.py): the guard of _start_encrypt,    *)
(* the worker threads it starts, and reset_state, which _switch_tab calls   *)
(* on the panel whenever its tab is selected.  A worker is followed from    *)
(* its start to its finally clause; a disabled button takes no click.       *)

MaxWorkers == 3    \* workers started in one run

OutsidePanel ==
    UNCHANGED <<envVars, logVars, userVars, uiVars, tokenVars, wipeVars, probeVars,
                secretVars, workerVars, sessionVars,
                otdVars>>

\* _browse_file: a file is chosen in the dialog
BrowseFile(path) ==
    /\ panel' = [panel EXCEPT !._selected_file = path]
    /\ UNCHANGED workers
    /\ OutsidePanel

\* the two password fields are filled in: alike and long enough (1), or not (0)
TypePassword(pwd) ==
    /\ panel' = [panel EXCEPT !.pwd = pwd]
    /\ UNCHANGED workers
    /\ OutsidePanel

\* the checks of _start_encrypt before the mode dialog
StartRefused ==
    \/ panel._is_processing
    \/ panel._selected_file = NoPath
    \/ ~Exists(fs, panel._selected_file)
    \/ panel.pwd = 0

\* _start_encrypt: mode is what the dialog returned, "" when it was closed
StartEncrypt(mode) ==
    /\ panel.button = "normal"
    /\ Len(workers) < MaxWorkers
    /\ IF StartRefused \/ mode = ""
       THEN UNCHANGED <<panel, workers>>
       ELSE /\ panel' = [panel EXCEPT !._is_processing = TRUE, !.button = "disabled"]
            /\ workers' = Append(workers, [src |-> panel._selected_file,
                                           create_new |-> (mode = "new"),
                                           running |-> TRUE])
    /\ OutsidePanel

\* _run_encrypt comes to its finally clause; the main thread then takes
\* ("enable_button",) from the queue
WorkerFinally(w) ==
    /\ workers[w].running
    /\ workers' = [workers EXCEPT ![w].running = FALSE]
    /\ panel' = [panel EXCEPT !._is_processing = FALSE, !.button = "normal"]
    /\ OutsidePanel

\* _switch_tab("ENCRYPT") -> reset_state
ResetState ==
    /\ panel' = NoPanel
    /\ UNCHANGED workers
    /\ OutsidePanel

InitPanel == EnvelopeIdle /\ InitLog /\ InitUsers

NextPanel ==
    \/ \E path \in {SrcPath, MissingPath} : BrowseFile(path)
    \/ \E pwd \in {0, 1} : TypePassword(pwd)
    \/ \E mode \in {"new", "replace", ""} : StartEncrypt(mode)
    \/ \E w \in 1..Len(workers) : WorkerFinally(w)
    \/ ResetState

SpecPanel == InitPanel /\ [][NextPanel]_vars

\* C34: while a worker started by _start_encrypt has not finished, no press
\* of the button and no tab switch starts a second one, so that no two
\* encrypt_file_replace calls on one path run at the same time.
C34_SingleWriter ==
    \A v, w \in 1..Len(workers) :
        (workers[v].running /\ workers[w].running) => v = w

----------------------------------------------------------------------------
(* The session (core/session.py).  SessionManager keeps who is logged in,   *)
(* whether the session is locked, when the user was last active and whether *)
(* a lock is asked for; panic_lock also empties TEMP_DIR, which is no part  *)
(* of this state.                                                           *)

SESSION_TIMEOUT == 300

OutsideSession ==
    UNCHANGED <<envVars, logVars, userVars, uiVars, tokenVars, wipeVars, probeVars,
                secretVars, workerVars, panelVars,
                otdVars>>

SessCall(op, ret) == [sessResult EXCEPT !.op = op, !.ret = ret]

\* login: the fields after the call at time t
LoggedIn(s, username, t) ==
    [username |-> username, locked |-> FALSE, _last_activity |-> t,
     _lock_requested |-> FALSE]

\* logout
LoggedOut(s) == [s EXCEPT !.username = None, !.locked = TRUE, !._lock_requested = FALSE]

\* touch
Touched(s, t) ==
    IF ~s.locked THEN [s EXCEPT !._last_activity = t, !._lock_requested = FALSE] ELSE s

TimedOutLate(inactive_time) == inactive_time > SESSION_TIMEOUT

\* inactive_time >= SESSION_TIMEOUT
TimedOut(inactive_time) == inactive_time >= SESSION_TIMEOUT

\* check_timeout: the return value and the fields after the call at time t
CheckTimeout(s, t) ==
    IF s.locked THEN [ret |-> FALSE, s |-> s]
    ELSE IF TimedOut(t - s._last_activity) /\ ~s._lock_requested
    THEN [ret |-> TRUE, s |-> [s EXCEPT !.locked = TRUE, !._lock_requested = TRUE]]
    ELSE [ret |-> FALSE, s |-> s]

PanicRequestOnly(s) == [s EXCEPT !._lock_requested = TRUE]

\* panic_lock
PanicLocked(s) == [s EXCEPT !.locked = TRUE, !._lock_requested = TRUE]

login(username) ==
    /\ sess' = LoggedIn(sess, username, now)
    /\ sessResult' = [SessCall("login", FALSE) EXCEPT !.active = now, !.panic = FALSE]
    /\ UNCHANGED <<screen, userVars>>
    /\ OutsideSession

logout ==
    /\ sess' = LoggedOut(sess)
    /\ sessResult' = [SessCall("logout", FALSE) EXCEPT !.panic = FALSE]
    /\ UNCHANGED <<screen, userVars>>
    /\ OutsideSession

touch ==
    /\ sess' = Touched(sess, now)
    /\ sessResult' = [SessCall("touch", FALSE) EXCEPT !.active = now]
    /\ UNCHANGED <<screen, userVars>>
    /\ OutsideSession

check_timeout ==
    /\ sess' = CheckTimeout(sess, now).s
    /\ sessResult' = SessCall("check_timeout", CheckTimeout(sess, now).ret)
    /\ UNCHANGED <<screen, userVars>>
    /\ OutsideSession

clear_lock_request ==
    /\ sess' = [sess EXCEPT !._lock_requested = FALSE]
    /\ sessResult' = SessCall("clear_lock_request", FALSE)
    /\ UNCHANGED <<screen, userVars>>
    /\ OutsideSession

panic_lock ==
    /\ sess' = PanicLocked(sess)
    /\ sessResult' = [SessCall("panic_lock", FALSE) EXCEPT !.panic = @ \/ ~sess.locked]
    /\ UNCHANGED <<screen, userVars>>
    /\ OutsideSession

\* who logs in: a registered user, or the guest of the login screen
SessionUsers == {"alice", "Guest"}

InitSession == EnvelopeIdle /\ InitLog /\ InitUsers

NextSession ==
    \/ \E username \in SessionUsers : login(username)
    \/ logout
    \/ touch
    \/ check_timeout
    \/ clear_lock_request
    \/ panic_lock
    \/ Tick /\ UNCHANGED uiVars

SpecSession == InitSession /\ [][NextSession]_vars

\* seconds since the last login or touch
Inactive == now - sessResult.active

\* C35: on an unlocked session check_timeout returns False and changes
\* nothing while less than SESSION_TIMEOUT seconds have passed since the last
\* login or touch, and returns True and locks the session once that time has
\* passed; on a locked session it returns False and changes nothing.
C35_AutoLock ==
    [][check_timeout =>
         /\ (~sess.locked /\ Inactive < SESSION_TIMEOUT) =>
                (~sessResult'.ret /\ sess' = sess)
         /\ (~sess.locked /\ Inactive >= SESSION_TIMEOUT) =>
                (sessResult'.ret /\ sess'.locked)
         /\ sess.locked => (~sessResult'.ret /\ sess' = sess)]_vars

C35_Witness ==
    /\ sessResult.op = "check_timeout" /\ sessResult.ret
    /\ sess.locked /\ sess.username = "alice"
    /\ Inactive >= SESSION_TIMEOUT /\ Inactive < SESSION_TIMEOUT + TimeStep

\* C37: in every state reached through login, logout, touch, check_timeout,
\* clear_lock_request and panic_lock an unlocked session has a username and
\* no pending lock request; touch leaves a locked session locked, and
\* check_timeout and panic_lock leave the username as it is.
C37_SessionInvariant ==
    /\ [](~sess.locked => (sess.username # None /\ ~sess._lock_requested))
    /\ [][(touch /\ sess.locked) => sess'.locked]_vars
    /\ [][(check_timeout \/ panic_lock) => sess'.username = sess.username]_vars

C37_Witness ==
    /\ sessResult.op = "touch"
    /\ sess.locked /\ sess._lock_requested /\ sessResult.panic
    /\ sess.username = "alice"

----------------------------------------------------------------------------
(* The session in the application (ui/app.py, lock_panel.py): the screens,  *)
(* the buttons that call the SessionManager, and _check_auto_lock, which    *)
(* the event loop runs once a second from the start of the application.     *)

\* what _do_lock_screen leaves: the lock screen, and no lock request
LockScreen(s) ==
    /\ sess' = [s EXCEPT !._lock_requested = FALSE]
    /\ screen' = "lock"

\* show_main: from the login screen, as guest or after authenticate
ShowMain(username) ==
    /\ screen = "auth"
    /\ sess' = LoggedIn(sess, username, now)
    /\ screen' = "main"
    /\ sessResult' = [SessCall("show_main", FALSE) EXCEPT !.active = now, !.panic = FALSE]
    /\ UNCHANGED userVars
    /\ OutsideSession

\* _switch_tab: a tab of the main screen is clicked
SwitchTab ==
    /\ screen = "main"
    /\ sess' = Touched(sess, now)
    /\ sessResult' = [SessCall("_switch_tab", FALSE) EXCEPT !.active = now]
    /\ UNCHANGED <<screen, userVars>>
    /\ OutsideSession

\* _check_auto_lock: one run of the polling handler
CheckAutoLock ==
    LET c == CheckTimeout(sess, now)
        shown == c.ret \/ (c.s._lock_requested /\ ~c.s.locked)
    IN  /\ IF c.ret THEN LockScreen(c.s)
           ELSE IF c.s._lock_requested /\ ~c.s.locked
           THEN LockScreen([c.s EXCEPT !.locked = TRUE])
           ELSE UNCHANGED <<sess, screen>>
        /\ sessResult' = [SessCall("_check_auto_lock", c.ret)
                            EXCEPT !.panic = @ /\ ~shown]
        /\ UNCHANGED userVars
        /\ OutsideSession

\* _panic_lock: the panic button of the main screen
PanicButton ==
    /\ screen = "main"
    /\ sess' = PanicLocked(sess)
    /\ sessResult' = [SessCall("_panic_lock", FALSE) EXCEPT !.panic = @ \/ ~sess.locked]
    /\ UNCHANGED <<screen, userVars>>
    /\ OutsideSession

\* _logout of the main screen and of the lock screen
LogoutButton ==
    /\ screen \in {"main", "lock"}
    /\ sess' = LoggedOut(sess)
    /\ screen' = "auth"
    /\ sessResult' = [SessCall("_logout", FALSE) EXCEPT !.panic = FALSE]
    /\ UNCHANGED userVars
    /\ OutsideSession

\* LockPanel._unlock: ok tells whether authenticate accepted the password
Unlock(ok) ==
    /\ screen = "lock"
    /\ IF sess.username = None
       THEN /\ sess' = LoggedOut(sess)
            /\ screen' = "auth"
            /\ sessResult' = [SessCall("_unlock", FALSE) EXCEPT !.panic = FALSE]
       ELSE IF ok
       THEN /\ sess' = LoggedIn(sess, sess.username, now)
            /\ screen' = "main"
            /\ sessResult' = [SessCall("_unlock", TRUE) EXCEPT !.active = now,
                                                                !.panic = FALSE]
       ELSE /\ UNCHANGED <<sess, screen>>
            /\ sessResult' = SessCall("_unlock", FALSE)
    /\ UNCHANGED userVars
    /\ OutsideSession

InitLock == EnvelopeIdle /\ InitLog /\ InitUsers

NextLock ==
    \/ \E username \in SessionUsers : ShowMain(username)
    \/ SwitchTab
    \/ CheckAutoLock
    \/ PanicButton
    \/ LogoutButton
    \/ \E ok \in BOOLEAN : Unlock(ok)
    \/ Tick /\ UNCHANGED uiVars

\* the event loop keeps running the polling handler
SpecLock == InitLock /\ [][NextLock]_vars /\ WF_vars(CheckAutoLock)

\* C36: after the panic button is pressed on an unlocked session, the polling
\* handler eventually shows the lock screen and clears the lock request
\* (unless the user has logged out first).
C36_PanicReachesLock ==
    sessResult.panic ~> ((screen = "lock" /\ ~sess._lock_requested)
                            \/ sess.username = None)

----------------------------------------------------------------------------
(* Further properties of login and lockout *)

\* C38: after any sequence of register, authenticate and reset_password
\* calls at any times, no failed-attempt counter is above
\* MAX_LOGIN_ATTEMPTS, and a username whose counter is MAX_LOGIN_ATTEMPTS
\* has a lockout entry.
C38_AttemptCounter ==
    \A u \in DOMAIN login_attempts :
        /\ login_attempts[u] <= MAX_LOGIN_ATTEMPTS
        /\ login_attempts[u] = MAX_LOGIN_ATTEMPTS => u \in DOMAIN lockout_until

C38_Witness ==
    /\ "alice" \in DOMAIN login_attempts
    /\ login_attempts["alice"] = MAX_LOGIN_ATTEMPTS
    /\ "alice" \in DOMAIN lockout_until
    /\ now >= lockout_until["alice"]
    /\ authResult.op = "register"

\* C39: an authenticate call for a username that is not registered fails,
\* changes no attempt counter, creates no lockout and does not write the
\* store, however often it is made.
C39_UnknownUsername ==
    [][\A username \in Usernames, password \in Passwords :
         (authenticate(username, password) /\ username \notin DOMAIN users) =>
            /\ ~authResult'.ok
            /\ login_attempts' = login_attempts
            /\ lockout_until' = lockout_until
            /\ UNCHANGED <<users, usersDb, vault>>]_vars

C39_Witness ==
    /\ authResult.op = "authenticate" /\ authResult.username = "bob"
    /\ ~authResult.ok /\ authResult.msg = "Invalid username or password."
    /\ "bob" \notin DOMAIN users
    /\ "bob" \notin DOMAIN login_attempts
    /\ "bob" \notin DOMAIN lockout_until
    /\ "alice" \in DOMAIN lockout_until /\ now < lockout_until["alice"]

----------------------------------------------------------------------------
(* One-time decrypt in the decrypt panel (ui/decrypt_panel.py).  The file   *)
(* "f.enc" holds an envelope and decrypts to "f".  What a path holds is     *)
(* "absent", "plaintext", an envelope under the user's password with or     *)
(* without the flag ("otd_user", "env_user"), or a flagged envelope under   *)
(* the random password of _otd_reencrypt ("otd_tmp"), which no password the *)
(* user types opens.  decrypt_file, encrypt_file and secure_delete are      *)
(* taken by their results; the worker thread, the queue it reports through, *)
(* the polling handler and the timer of app.after are followed step by step.*)

MaxDecrypts == 2    \* workers started in one run

OutsideOtd ==
    UNCHANGED <<envVars, logVars, userVars, uiVars, tokenVars, wipeVars, probeVars,
                secretVars, workerVars, panelVars, sessionVars>>

Envelopes == {"otd_user", "env_user", "otd_tmp"}

\* _browse_file of the decrypt panel
BrowseEnvelope ==
    /\ dpanel' = [dpanel EXCEPT !._selected_file = "f.enc"]
    /\ UNCHANGED <<dworkers, disk, reencrypt>>
    /\ OutsideOtd

\* the messages in the queue are handled in order: a successful "complete"
\* of a flagged envelope schedules _otd_reencrypt, "enable_button" enables
Scheduled(queue) ==
    Cardinality({i \in 1..Len(queue) : /\ queue[i].type = "complete"
                                       /\ queue[i].success /\ queue[i].was_otd})

Polled(p) ==
    [p EXCEPT !.ui_queue = <<>>, !._poll_job = TRUE,
              !.button = IF \E i \in 1..Len(p.ui_queue) : p.ui_queue[i].type = "enable_button"
                         THEN "normal" ELSE @]

\* _start_decrypt; pwd is what the password field holds: the user's
\* password, another one, or nothing
StartDecrypt(pwd) ==
    /\ dpanel.button = "normal"
    /\ Len(dworkers) < MaxDecrypts
    /\ IF \/ dpanel._is_processing
          \/ dpanel._selected_file = "" \/ disk[dpanel._selected_file] = "absent"
          \/ pwd = ""
       THEN UNCHANGED <<dpanel, dworkers, reencrypt>>
       ELSE /\ dpanel' = Polled([dpanel EXCEPT !._is_processing = TRUE,
                                               !.button = "disabled"])
            /\ reencrypt' = [reencrypt EXCEPT !.timers = @ + Scheduled(dpanel.ui_queue)]
            /\ dworkers' = Append(dworkers, [pc |-> "start", src |-> "", pwd |-> pwd])
    /\ UNCHANGED disk
    /\ OutsideOtd

\* _run_decrypt: src = self._selected_file
DwSource(w) ==
    /\ dworkers[w].pc = "start"
    /\ dworkers' = [dworkers EXCEPT ![w].pc = "decrypt", ![w].src = dpanel._selected_file]
    /\ UNCHANGED <<dpanel, disk, reencrypt>>
    /\ OutsideOtd

\* _run_decrypt: decrypt_file, the removal of the envelope, ("complete", ...)
DwDecrypt(w) ==
    LET src == dworkers[w].src
        ok  == /\ src # ""
               /\ disk[src] \in {"otd_user", "env_user"}
               /\ dworkers[w].pwd = "right"
        was_otd == ok /\ disk[src] = "otd_user"
    IN  /\ dworkers[w].pc = "decrypt"
        /\ disk' = IF ok THEN [disk EXCEPT !["f"] = "plaintext", !["f.enc"] = "absent"]
                   ELSE disk
        /\ dpanel' = [dpanel EXCEPT !.ui_queue =
                        Append(@, [type |-> "complete", success |-> ok,
                                   was_otd |-> was_otd])]
        /\ reencrypt' = [reencrypt EXCEPT !.due = @ \/ was_otd]
        /\ dworkers' = [dworkers EXCEPT ![w].pc = "finally"]
        /\ OutsideOtd

\* _run_decrypt: the finally clause
DwFinally(w) ==
    /\ dworkers[w].pc = "finally"
    /\ dpanel' = [dpanel EXCEPT !._is_processing = FALSE,
                                !.ui_queue = Append(@, [type |-> "enable_button",
                                                        success |-> FALSE,
                                                        was_otd |-> FALSE])]
    /\ dworkers' = [dworkers EXCEPT ![w].pc = "done"]
    /\ UNCHANGED <<disk, reencrypt>>
    /\ OutsideOtd

\* _poll_ui_queue, run by the event loop while _poll_job is set
PollUiQueue ==
    /\ dpanel._poll_job
    /\ dpanel' = Polled(dpanel)
    /\ reencrypt' = [reencrypt EXCEPT !.timers = @ + Scheduled(dpanel.ui_queue)]
    /\ UNCHANGED <<dworkers, disk>>
    /\ OutsideOtd

\* reset_state, called by _switch_tab when the DECRYPT tab is selected
DecryptResetState ==
    /\ dpanel' = [NoDecryptPanel EXCEPT !.ui_queue = dpanel.ui_queue]
    /\ UNCHANGED <<dworkers, disk, reencrypt>>
    /\ OutsideOtd

\* _otd_reencrypt, three seconds after _finish_ok: encrypt_file with the
\* flag and a random password, then secure_delete if that went well
OtdReencrypt ==
    /\ reencrypt.timers > 0
    /\ reencrypt' = [reencrypt EXCEPT !.timers = @ - 1]
    /\ disk' = IF disk["f"] = "plaintext"
               THEN [disk EXCEPT !["f.enc"] = "otd_tmp", !["f"] = "absent"]
               ELSE disk
    /\ UNCHANGED <<dpanel, dworkers>>
    /\ OutsideOtd

InitOneTime == EnvelopeIdle /\ InitLog /\ InitUsers

\* an envelope written with the flag or without it is put at "f.enc"
PlaceEnvelope(kind) ==
    /\ disk = NoDisk /\ dworkers = <<>>
    /\ disk' = [disk EXCEPT !["f.enc"] = kind]
    /\ UNCHANGED <<dpanel, dworkers, reencrypt>>
    /\ OutsideOtd

NextOneTime ==
    \/ \E kind \in {"otd_user", "env_user"} : PlaceEnvelope(kind)
    \/ BrowseEnvelope
    \/ \E pwd \in {"right", "wrong", ""} : StartDecrypt(pwd)
    \/ \E w \in 1..Len(dworkers) : DwSource(w)
    \/ \E w \in 1..Len(dworkers) : DwDecrypt(w)
    \/ \E w \in 1..Len(dworkers) : DwFinally(w)
    \/ PollUiQueue
    \/ DecryptResetState
    \/ OtdReencrypt

\* the worker threads run on, the event loop serves its timers
SpecOneTime ==
    /\ InitOneTime /\ [][NextOneTime]_vars
    /\ WF_vars(\E w \in 1..Len(dworkers) : DwSource(w))
    /\ WF_vars(\E w \in 1..Len(dworkers) : DwDecrypt(w))
    /\ WF_vars(\E w \in 1..Len(dworkers) : DwFinally(w))
    /\ WF_vars(PollUiQueue)
    /\ WF_vars(OtdReencrypt)

\* C40: after a successful decryption of a flagged envelope the plaintext
\* is eventually re-encrypted with the flag and then deleted, so that no
\* plaintext is left at the output path and a flagged envelope exists; the
\* plaintext is deleted only when the re-encryption succeeded.
C40_OtdOrchestration ==
    /\ reencrypt.due ~> (disk["f"] = "absent" /\ disk["f.enc"] = "otd_tmp")
    /\ [][(disk["f"] = "plaintext" /\ disk'["f"] = "absent") =>
             disk'["f.enc"] = "otd_tmp"]_vars
============================================================================
